---------------------------- MODULE Spec2Model ----------------------------
(***************************************************************************)
(* A model of the RTPS peer runtime of dust-dds: the stateful writer and   *)
(* its reader proxies, the best-effort writer/reader exchange, the DCPS    *)
(* data reader's read/take and statuses, the participant's SPDP discovery  *)
(* bookkeeping (add / remove / ignore of discovered participants), its     *)
(* entity factory operations, find_topic, the threads of DcpsService, the  *)
(* operations of a reader proxy, the submessage codec, actors and their    *)
(* addresses, and the message receiver.                                    *)
(*                                                                         *)
(* Each part has its own specification over its own variables:             *)
(*   SpecWriter      stateful writer, reader proxies, heartbeats           *)
(*   SpecBestEffort  best-effort StatefulWriter -> StatefulReader exchange *)
(*   SpecReader      DataReaderProxy read / take over the reader cache     *)
(*   SpecReaderCalls read / take with the arguments of the call            *)
(*   SpecDiscovery   DomainParticipantImpl discovery with ignore_participant*)
(*   SpecLease       DomainParticipantImpl discovery with lease timers     *)
(*   SpecEntities    creation, deletion and enabling of DCPS entities      *)
(*   SpecEntityIds   create_publisher / delete_publisher over all counters *)
(*   SpecTasks       the threads of DcpsService and shutdown_tasks         *)
(*   SpecTasksFair   the same under a fair scheduler                       *)
(*   SpecFindTopic   find_topic with create_topic and topic discovery      *)
(*   SpecStatus      data reader statuses, deadline timer and listener     *)
(*   SpecProxySend   reader proxy: the changes still to send               *)
(*   SpecProxyAcked  reader proxy: acknowledged changes, is_acked_by_all   *)
(*   SpecProxyAckNack reader proxy: AckNacks and requested changes         *)
(*   SpecCodec       submessage header, INFO_TS and INFO_DST encode/decode *)
(*   SpecCodecReceive parse of received submessage headers of any id       *)
(*   SpecActor       Actor, its clones, ActorAddress and the mailbox       *)
(*   SpecReceiver    MessageReceiver::process_message over one datagram    *)
(*   SpecSequenceNumberSet SequenceNumberSetUdp: new, base, set and len    *)
(*   SpecLocks       the read/write locks of DomainParticipantImpl         *)
(*   SpecDeletePublisher delete_publisher beside create_datawriter         *)
(***************************************************************************)
EXTENDS Integers, Sequences, FiniteSets, TLC

(***************************************************************************)
(* Bounds of the model.                                                    *)
(***************************************************************************)
MaxChanges == 3       \* new_change calls explored per writer
MaxReaders == 2       \* length of the writer's matched_readers vector
MaxHeartbeats == 3    \* heartbeats recorded in the emission history
MaxPush == 3          \* messages pushed to the stateful reader
MaxRuns == 3          \* reader.run() calls
MaxSamples == 2       \* changes a data reader receives
MaxSeqNum == 2        \* sequence numbers of a writer matched with the data reader
MaxDepth == 2         \* HISTORY KEEP_LAST depths explored
MaxTime == 3          \* clock ticks
MaxLease == 2         \* lease durations announced, in ticks
MaxSubmessages == 3   \* submessages of a datagram
MaxClones == 1        \* clones of an Actor
MailboxCapacity == 16 \* capacity of the channel of an actor
MaxProxySeqNum == 3   \* sequence numbers of the writer behind a reader proxy
MaxCount == 2         \* counts of the AckNacks a reader proxy receives
MaxTimeout == 2
MaxClock == 3
MaxPublishers == 2    \* publishers in the participant's list
MaxCreated == 1       \* create calls per entity kind of the participant
MaxWriters == 1       \* create_datawriter calls per publisher
MaxBase == 2          \* bases of a SequenceNumberSetUdp
MaxSetLen == 3        \* length of the slice handed to SequenceNumberSetUdp::new

\* the distances from the base of the sequence numbers handed to new: both
\* ends of the first word, of the second word and of the 256 bits
SequenceNumberDeltas == {0, 1, 31, 32, 63, 255}

ReaderGuids == {"r1", "r2"}

(***************************************************************************)
(* Generic helpers.                                                        *)
(***************************************************************************)
Range(s) == {s[i] : i \in DOMAIN s}

\* Count::wrapping_add on the i32 behind Count (n >= 0): past i32::MAX the sum
\* continues from i32::MIN
WrappingAdd(c, n) ==
    IF c > 2147483647 - n
    THEN ((c - 2147483647) + (n - 1)) - 2147483647 - 1
    ELSE c + n

(***************************************************************************)
(* State.                                                                  *)
(***************************************************************************)
VARIABLES
    \* ---- stateful writer (RtpsStatefulWriterImpl) ----
    last_change_sequence_number,  \* SequenceNumber, 0 after construction
    writer_cache,                 \* sequence numbers of the changes in the writer cache
    matched_readers,              \* Seq of reader proxies (Vec<RtpsReaderProxyImpl>)
    returned_changes,             \* history: sequence numbers returned by new_change, in call order
    sent_heartbeats,              \* history: <<reader guid, count>> of every Heartbeat emitted
    \* ---- best-effort exchange: StatefulWriter, its ReaderProxy, StatefulReader ----
    sw_last_change_sequence_number, \* the StatefulWriter's sequence-number counter
    sw_writer_cache,              \* sequence numbers of the changes in writer.writer_cache()
    rp_highest_sent,              \* ReaderProxy: highest sequence number sent to the reader
    rp_send_messages,             \* history: messages writer.run() produced for the reader proxy, in order
    sr_reliability_level,         \* the StatefulReader's reliability_level
    sr_matched_writers,           \* GUID -> writer proxy (HashMap<GUID, Box<dyn WriterProxyOps>>)
    sr_pushed,                    \* history: messages pushed to the reader, in push order
    sr_runs,                      \* number of reader.run() calls since the last push
    sr_reader_cache,              \* sequence numbers in reader.reader_cache(), in insertion order
    sr_acknacks,                  \* number of AckNack messages the reader has emitted
    \* ---- DCPS data reader (DataReaderAttributes / DataReaderProxy) ----
    dr_changes,                   \* rtps_reader.reader_cache().changes(): [writer_guid, sequence_number], in cache order
    dr_received,                  \* the changes the RTPS reader has put into the cache so far
    dr_samples_read,              \* DataReaderAttributes::samples_read
    dr_history,                   \* qos.history: [kind, depth]
    dr_listener,                  \* whether a listener is installed
    dr_status_change,             \* DataReaderAttributes::status_change, as a set of status names
    dr_result,                    \* what the last read / take returned
    \* ---- participant discovery (DomainParticipantImpl) ----
    discovered_participant_list,  \* handles of the discovered participants
    ignored_participants,         \* handles passed to ignore_participant
    builtin_matched,              \* per built-in SEDP endpoint: participants it holds a proxy for
    sedp_samples,                 \* per SEDP reader: participants whose endpoint data it has received
    user_matched,                 \* per user-defined endpoint kind: participants it holds a proxy for
    timer,                        \* per handle: the lease timer [deadline, period], deadline -1 = none
    timer_periodic,               \* whether a timer runs its callback again every period
    now,                          \* the clock
    threads,                      \* per thread: the call it is in [pc, handle, i, lease]
    lease_end,                    \* per handle: when the lease of its last processed announcement ends, -1 = never
    ignore_returned,              \* handles for which ignore_participant has returned
    \* ---- DCPS entities of the participant (DomainParticipantImpl, PublisherImpl) ----
    dp_enabled,                   \* DomainParticipantImpl::enabled
    dp_autoenable,                \* qos.entity_factory.autoenable_created_entities of the participant
    user_defined_publisher_counter,   \* AtomicU8
    user_defined_publisher_list,      \* Vec of publishers
    user_defined_subscriber_counter,  \* AtomicU8
    user_defined_subscriber_list,     \* Vec of subscribers
    user_defined_topic_counter,       \* AtomicU8
    topic_list,                       \* Vec of topics
    ep_result,                    \* the last call of this part and what it returned
    \* ---- the participant's tasks (DcpsService) ----
    quit,                         \* DcpsService::quit (AtomicBool)
    service_threads,              \* DcpsService::threads: the tasks not yet popped
    task_pc,                      \* per task: where it is in its loop
    shutdown_pc,                  \* where the caller of shutdown_tasks is
    joining,                      \* the task shutdown_tasks is joining
    \* ---- find_topic ----
    current_time,                 \* what get_current_time() returns
    discovered_topic_list,        \* names of the discovered topics
    find_pc,                      \* where the caller of find_topic is
    find_start_time,              \* find_topic: start_time
    find_timeout,                 \* find_topic: timeout
    find_result,                  \* what find_topic returned, and when
    find_existed_at_call,         \* the topic was local or discovered when find_topic was called
    \* ---- data reader statuses (deadline timer, listener, status getter) ----
    deadline_timer,               \* whether the deadline timer holds a callback (on_deadline)
    requested_deadline_missed_status, \* [total_count, total_count_change]
    deadline_pc,                  \* where the deadline callback is, on the timer's thread
    get_status_pc,                \* where the caller of get_requested_deadline_missed_status is
    get_status_clone,             \* get_requested_deadline_missed_status: status
    get_status_result,            \* what get_requested_deadline_missed_status returned last
    on_data_available_calls,      \* history: calls of the listener's on_data_available
    on_requested_deadline_missed_calls,\* history: calls of on_requested_deadline_missed
    \* ---- a reader proxy of a writer (RtpsReaderProxy, WriterAssociatedReaderProxy) ----
    change_list,                  \* writer.change_list(): the sequence numbers of its changes
    reliability,                  \* RtpsReaderProxy::reliability
    highest_sent_seq_num,         \* RtpsReaderProxy::highest_sent_seq_num
    highest_acked_seq_num,        \* RtpsReaderProxy::highest_acked_seq_num
    requested_changes,            \* RtpsReaderProxy::requested_changes (Vec<SequenceNumber>)
    last_received_acknack_count,  \* RtpsReaderProxy::last_received_acknack_count
    first_relevant_sample_seq_num, \* RtpsReaderProxy::first_relevant_sample_seq_num
    proxy_result,                 \* the last call on the proxy and what it returned
    drained,                      \* history: what next_requested_change returned since the last request
    \* ---- the submessage codec ----
    codec_value,                  \* the value handed to the encoder
    codec_bytes,                  \* the bytes the encoder wrote
    codec_decoded,                \* what the decoder read from the bytes
    \* ---- an actor, its mailbox and the senders through its address ----
    actor_alive,                  \* the Actor returned by spawn has not been dropped
    actor_clones,                 \* clones of the Actor that have not been dropped
    mailbox,                      \* messages in the channel of the actor
    send_pc,                      \* per sender through an ActorAddress: where its call stands
    send_result,                  \* per sender: what its last call returned
    \* ---- the message receiver walking a datagram ----
    message_receiver,             \* the fields of MessageReceiver
    rtps_message,                 \* message.submessages of the datagram being processed
    submessage_index,             \* the submessage the loop of process_message is at
    dispatched,                   \* the calls of process_data_submessage made so far
    receiver_pc,                  \* "running", or "panicked" once a todo!() was reached
    \* ---- SequenceNumberSetUdp ----
    sns_base,                     \* the base handed to SequenceNumberSetUdp::new
    sns_input,                    \* the sequence numbers handed to SequenceNumberSetUdp::new
    sequence_number_set,          \* the SequenceNumberSetUdp constructed: [base, num_bits, bitmap]
    sns_result,                   \* what the last accessor returned: [op, value]
    \* ---- the read/write locks of DomainParticipantImpl ----
    lock_program,                 \* per thread: the lock steps left of the call it is in
    lock_held,                    \* per thread: the guards it holds, in the order it took them
    \* ---- delete_publisher running beside the calls of another thread ----
    delete_publisher_call,        \* [pc, handle]: "retain" between its check and its removal
    \* ---- history of get_requested_deadline_missed_status ----
    returned_total_count_change,  \* the sum of the total_count_change values the calls returned
    \* ---- the arguments of the last read / take ----
    dr_call                       \* [max_samples, sample_states] of the call dr_result is of

wvars == <<last_change_sequence_number, writer_cache, matched_readers,
           returned_changes, sent_heartbeats>>

bvars == <<sw_last_change_sequence_number, sw_writer_cache, rp_highest_sent,
           rp_send_messages, sr_reliability_level, sr_matched_writers, sr_pushed,
           sr_runs, sr_reader_cache, sr_acknacks>>

rvars == <<dr_changes, dr_received, dr_samples_read, dr_history, dr_listener,
           dr_status_change, dr_result>>

dvars == <<discovered_participant_list, ignored_participants, builtin_matched, sedp_samples,
           user_matched, timer, timer_periodic, now, threads, lease_end, ignore_returned>>

evars == <<dp_enabled, dp_autoenable, user_defined_publisher_counter,
           user_defined_publisher_list, user_defined_subscriber_counter,
           user_defined_subscriber_list, user_defined_topic_counter, topic_list, ep_result>>

tvars == <<quit, service_threads, task_pc, shutdown_pc, joining>>

fvars == <<current_time, discovered_topic_list, find_pc, find_start_time, find_timeout, find_result, find_existed_at_call>>

svars == <<deadline_timer, requested_deadline_missed_status, deadline_pc, get_status_pc, get_status_clone, get_status_result, on_data_available_calls, on_requested_deadline_missed_calls>>

pvars == <<change_list, reliability, highest_sent_seq_num, highest_acked_seq_num, requested_changes, last_received_acknack_count, first_relevant_sample_seq_num, proxy_result, drained>>

cvars == <<codec_value, codec_bytes, codec_decoded>>

avars == <<actor_alive, actor_clones, mailbox, send_pc, send_result>>

mvars == <<message_receiver, rtps_message, submessage_index, dispatched, receiver_pc>>

nvars == <<sns_base, sns_input, sequence_number_set, sns_result>>

lvars == <<lock_program, lock_held>>

xvars == <<delete_publisher_call>>

hvars == <<returned_total_count_change>>

yvars == <<dr_call>>

vars == <<wvars, bvars, rvars, dvars, evars, tvars, fvars, svars, pvars, cvars, avars, mvars, nvars, lvars, xvars, hvars, yvars>>

\* what the operations of one part leave alone: the state of the other parts
WriterFrame == UNCHANGED <<bvars, rvars, dvars, evars, tvars, fvars, svars, pvars, cvars, avars, mvars, nvars, lvars, xvars, hvars, yvars>>
BestEffortFrame == UNCHANGED <<wvars, rvars, dvars, evars, tvars, fvars, svars, pvars, cvars, avars, mvars, nvars, lvars, xvars, hvars, yvars>>
ReaderFrame == UNCHANGED <<wvars, bvars, dvars, evars, tvars, fvars, svars, pvars, cvars, avars, mvars, nvars, lvars, xvars, hvars, yvars>>
DiscoveryFrame == UNCHANGED <<wvars, bvars, rvars, evars, tvars, fvars, svars, pvars, cvars, avars, mvars, nvars, lvars, xvars, hvars, yvars>>
EntitiesFrame == UNCHANGED <<wvars, bvars, rvars, dvars, tvars, fvars, svars, pvars, cvars, avars, mvars, nvars, lvars, xvars, hvars, yvars>>
TasksFrame == UNCHANGED <<wvars, bvars, rvars, dvars, evars, fvars, svars, pvars, cvars, avars, mvars, nvars, lvars, xvars, hvars, yvars>>
FindTopicFrame == UNCHANGED <<wvars, bvars, rvars, dvars, tvars, svars, pvars, cvars, avars, mvars, nvars, lvars, xvars, hvars, yvars>>
StatusFrame == UNCHANGED <<wvars, bvars, dvars, evars, tvars, fvars, pvars, cvars, avars, mvars, nvars, lvars, xvars, hvars, yvars>>
ProxyFrame == UNCHANGED <<wvars, bvars, rvars, dvars, evars, tvars, fvars, svars, cvars, avars, mvars, nvars, lvars, xvars, hvars, yvars>>
CodecFrame == UNCHANGED <<wvars, bvars, rvars, dvars, evars, tvars, fvars, svars, pvars, avars, mvars, nvars, lvars, xvars, hvars, yvars>>
ActorFrame == UNCHANGED <<wvars, bvars, rvars, dvars, evars, tvars, fvars, svars, pvars, cvars, mvars, nvars, lvars, xvars, hvars, yvars>>
ReceiverFrame == UNCHANGED <<wvars, bvars, rvars, dvars, evars, tvars, fvars, svars, pvars, cvars, avars, nvars, lvars, xvars, hvars, yvars>>
SequenceNumberSetFrame == UNCHANGED <<wvars, bvars, rvars, dvars, evars, tvars, fvars, svars, pvars, cvars, avars, mvars, lvars, xvars, hvars, yvars>>
LocksFrame == UNCHANGED <<wvars, bvars, rvars, dvars, evars, tvars, fvars, svars, pvars, cvars, avars, mvars, nvars, xvars, hvars, yvars>>
DeletePublisherCallFrame == UNCHANGED <<wvars, bvars, rvars, dvars, tvars, fvars, svars, pvars, cvars, avars, mvars, nvars, lvars, hvars, yvars>>
StatusReturnFrame == UNCHANGED <<wvars, bvars, dvars, evars, tvars, fvars, pvars, cvars, avars, mvars, nvars, lvars, xvars, yvars>>
ReaderCallFrame == UNCHANGED <<wvars, bvars, dvars, evars, tvars, fvars, svars, pvars, cvars, avars, mvars, nvars, lvars, xvars, hvars>>

(***************************************************************************)
(* Stateful writer.                                                        *)
(***************************************************************************)

\* HeartbeatMachine::new : count starts at 0
HeartbeatMachineNew == 0

\* RtpsReaderProxy::new
RtpsReaderProxyNew(guid) ==
    [remote_reader_guid |-> guid,
     heartbeat_count    |-> HeartbeatMachineNew]

\* new_change: the sequence number given to the new change
NewChangeSkipsIncrement(last) == last
NewChangeSequenceNumber(last) == last + 1

\* RtpsStatefulWriterImpl::new
WriterInit ==
    /\ last_change_sequence_number = 0
    /\ writer_cache = {}
    /\ matched_readers = <<>>
    /\ returned_changes = <<>>
    /\ sent_heartbeats = <<>>

\* RtpsStatefulWriterImpl::new_change
new_change ==
    /\ last_change_sequence_number < MaxChanges
    /\ last_change_sequence_number' = NewChangeSequenceNumber(last_change_sequence_number)
    /\ returned_changes' = Append(returned_changes, last_change_sequence_number')
    /\ UNCHANGED <<writer_cache, matched_readers, sent_heartbeats>>
    /\ WriterFrame

\* writer_cache.add_change of a change obtained from new_change
add_change ==
    \E sn \in Range(returned_changes) \ writer_cache :
        /\ writer_cache' = writer_cache \cup {sn}
        /\ UNCHANGED <<last_change_sequence_number, matched_readers,
                       returned_changes, sent_heartbeats>>
        /\ WriterFrame

\* RtpsStatefulWriterImpl::matched_reader_add : push, no duplicate check
matched_reader_add ==
    \E g \in ReaderGuids :
        /\ Len(matched_readers) < MaxReaders
        /\ matched_readers' = Append(matched_readers, RtpsReaderProxyNew(g))
        /\ UNCHANGED <<last_change_sequence_number, writer_cache,
                       returned_changes, sent_heartbeats>>
        /\ WriterFrame

\* RtpsStatefulWriterImpl::matched_reader_remove : retain(|x| guid != g)
matched_reader_remove ==
    \E g \in ReaderGuids :
        /\ \E i \in DOMAIN matched_readers : matched_readers[i].remote_reader_guid = g
        /\ matched_readers' =
               SelectSeq(matched_readers, LAMBDA p : p.remote_reader_guid # g)
        /\ UNCHANGED <<last_change_sequence_number, writer_cache,
                       returned_changes, sent_heartbeats>>
        /\ WriterFrame

\* HeartbeatMachine::submessage : count := count.wrapping_add(1); emit Heartbeat(count)
send_heartbeat ==
    \E i \in DOMAIN matched_readers :
        LET count == WrappingAdd(matched_readers[i].heartbeat_count, 1) IN
        /\ Len(sent_heartbeats) < MaxHeartbeats
        /\ matched_readers' = [matched_readers EXCEPT ![i].heartbeat_count = count]
        /\ sent_heartbeats' =
               Append(sent_heartbeats, <<matched_readers[i].remote_reader_guid, count>>)
        /\ UNCHANGED <<last_change_sequence_number, writer_cache, returned_changes>>
        /\ WriterFrame

WriterNext ==
    \/ new_change
    \/ add_change
    \/ matched_reader_add
    \/ matched_reader_remove
    \/ send_heartbeat

(***************************************************************************)
(* Best-effort exchange between a StatefulWriter and a StatefulReader, as  *)
(* driven by tests/best_effort_stateful_reader_writer_integration.rs: the  *)
(* writer and the reader are matched once, changes are allocated with      *)
(* new_change and added to the writer cache, writer.run() fills the reader *)
(* proxy's send queue, messages are pushed to the reader's writer proxy    *)
(* (in any order, any number of times, or not at all) and each             *)
(* reader.run() lets the writer proxy process one received message.        *)
(***************************************************************************)
WriterGuid == "w1"

DataMessage(sn) == [kind |-> "Data", sn |-> sn]
GapMessage(sn) == [kind |-> "Gap", sn |-> sn]

\* BestEffortWriterProxy::new / ReliableWriterProxy::new
WriterProxyNew(kind) ==
    [kind     |-> kind,      \* "BestEffort" or "Reliable"
     queue    |-> <<>>,      \* received messages not processed yet
     max_sn   |-> 0,         \* highest sequence number received, lost or irrelevant
     received |-> {}]        \* sequence numbers received or irrelevant

\* StatefulReader::matched_writer_add : the proxy type follows reliability_level
MatchedWriterAddAlwaysReliable(reliability_level) == "Reliable"
MatchedWriterAddProxyKind(reliability_level) ==
    IF reliability_level = "Reliable" THEN "Reliable" ELSE "BestEffort"

\* StatefulWriter::run for one reader proxy: one message per sequence number
\* above the highest sent, Data when the change is in the writer cache, Gap
\* when it is not
RECURSIVE PushingStateMessagesDataOnly(_, _, _)
PushingStateMessagesDataOnly(from, to, cache) ==
    IF from > to THEN <<>>
    ELSE <<DataMessage(from)>> \o PushingStateMessagesDataOnly(from + 1, to, cache)
RECURSIVE PushingStateMessages(_, _, _)
PushingStateMessages(from, to, cache) ==
    IF from > to THEN <<>>
    ELSE <<(IF from \in cache THEN DataMessage(from) ELSE GapMessage(from))>>
             \o PushingStateMessages(from + 1, to, cache)

\* BestEffortWriterProxy: a Data or Gap is taken only at or above the
\* expected sequence number (highest so far + 1)
BestEffortProcessTakesAll(proxy, msg) ==
    [accept |-> (msg.kind = "Data"),
     proxy  |-> [proxy EXCEPT !.max_sn = msg.sn, !.received = @ \cup {msg.sn}]]
BestEffortProcessAboveExpected(proxy, msg) ==
    IF msg.sn > proxy.max_sn + 1
    THEN [accept |-> (msg.kind = "Data"),
          proxy  |-> [proxy EXCEPT !.max_sn = msg.sn,
                                   !.received = @ \cup {msg.sn}]]
    ELSE [accept |-> FALSE, proxy |-> proxy]
BestEffortProcess(proxy, msg) ==
    IF msg.sn >= proxy.max_sn + 1
    THEN [accept |-> (msg.kind = "Data"),
          proxy  |-> [proxy EXCEPT !.max_sn = msg.sn,
                                   !.received = @ \cup {msg.sn}]]
    ELSE [accept |-> FALSE, proxy |-> proxy]

\* ReliableWriterProxy: a Data is taken unless that sequence number was
\* received or declared irrelevant before
ReliableProcess(proxy, msg) ==
    IF msg.sn \notin proxy.received
    THEN [accept |-> (msg.kind = "Data"),
          proxy  |-> [proxy EXCEPT !.max_sn = IF msg.sn > @ THEN msg.sn ELSE @,
                                   !.received = @ \cup {msg.sn}]]
    ELSE [accept |-> FALSE, proxy |-> proxy]

\* WriterProxyOps::run : process the oldest received message, if any
WriterProxyRun(proxy) ==
    IF proxy.queue = <<>>
    THEN [accept |-> FALSE, sn |-> 0, proxy |-> proxy]
    ELSE LET msg  == Head(proxy.queue)
             rest == [proxy EXCEPT !.queue = Tail(@)]
             out  == IF proxy.kind = "BestEffort"
                     THEN BestEffortProcess(rest, msg)
                     ELSE ReliableProcess(rest, msg)
         IN [accept |-> out.accept, sn |-> msg.sn, proxy |-> out.proxy]

\* HistoryCache::add_change on the reader cache
HistoryCacheAddChange(cache, sn) == Append(cache, sn)

\* StatefulWriter::new, StatefulReader::new, then matched_reader_add and
\* matched_writer_add as the first calls of the exchange
BestEffortInit ==
    /\ sw_last_change_sequence_number = 0
    /\ sw_writer_cache = {}
    /\ rp_highest_sent = 0
    /\ rp_send_messages = <<>>
    /\ sr_reliability_level \in {"BestEffort", "Reliable"}
    /\ sr_matched_writers =
           [g \in {WriterGuid} |->
               WriterProxyNew(MatchedWriterAddProxyKind(sr_reliability_level))]
    /\ sr_pushed = <<>>
    /\ sr_runs = 0
    /\ sr_reader_cache = <<>>
    /\ sr_acknacks = 0

\* StatefulWriter::new_change
sw_new_change ==
    /\ sw_last_change_sequence_number < MaxChanges
    /\ sw_last_change_sequence_number' =
           NewChangeSequenceNumber(sw_last_change_sequence_number)
    /\ UNCHANGED <<sw_writer_cache, rp_highest_sent, rp_send_messages,
                   sr_reliability_level, sr_matched_writers, sr_pushed, sr_runs,
                   sr_reader_cache, sr_acknacks>>
    /\ BestEffortFrame

\* writer.writer_cache().add_change(change) for a change allocated before
sw_add_change ==
    \E sn \in (1 .. sw_last_change_sequence_number) \ sw_writer_cache :
        /\ sw_writer_cache' = sw_writer_cache \cup {sn}
        /\ UNCHANGED <<sw_last_change_sequence_number, rp_highest_sent,
                       rp_send_messages, sr_reliability_level, sr_matched_writers,
                       sr_pushed, sr_runs, sr_reader_cache, sr_acknacks>>
        /\ BestEffortFrame

\* StatefulWriter::run
sw_run ==
    /\ rp_highest_sent < sw_last_change_sequence_number
    /\ rp_send_messages' = rp_send_messages \o
           PushingStateMessages(rp_highest_sent + 1, sw_last_change_sequence_number,
                                sw_writer_cache)
    /\ rp_highest_sent' = sw_last_change_sequence_number
    /\ UNCHANGED <<sw_last_change_sequence_number, sw_writer_cache,
                   sr_reliability_level, sr_matched_writers, sr_pushed, sr_runs,
                   sr_reader_cache, sr_acknacks>>
    /\ BestEffortFrame

\* StatefulReader::push_receive_message of a message the writer produced:
\* any message, any number of times (reordering, duplication, loss)
sr_push_receive_message ==
    \E i \in DOMAIN rp_send_messages :
        /\ Len(sr_pushed) < MaxPush
        /\ sr_matched_writers' =
               [sr_matched_writers EXCEPT
                    ![WriterGuid].queue = Append(@, rp_send_messages[i])]
        /\ sr_pushed' = Append(sr_pushed, rp_send_messages[i])
        /\ sr_runs' = 0
        /\ UNCHANGED <<sw_last_change_sequence_number, sw_writer_cache,
                       rp_highest_sent, rp_send_messages, sr_reliability_level,
                       sr_reader_cache, sr_acknacks>>
        /\ BestEffortFrame

\* StatefulReader::run : every matched writer proxy runs against the reader cache
sr_run ==
    LET out == WriterProxyRun(sr_matched_writers[WriterGuid]) IN
    /\ sr_runs < MaxRuns
    /\ sr_runs' = sr_runs + 1
    /\ sr_matched_writers' = [sr_matched_writers EXCEPT ![WriterGuid] = out.proxy]
    /\ sr_reader_cache' = IF out.accept
                          THEN HistoryCacheAddChange(sr_reader_cache, out.sn)
                          ELSE sr_reader_cache
    /\ UNCHANGED <<sw_last_change_sequence_number, sw_writer_cache, rp_highest_sent,
                   rp_send_messages, sr_reliability_level, sr_pushed, sr_acknacks>>
    /\ BestEffortFrame

BestEffortNext ==
    \/ sw_new_change
    \/ sw_add_change
    \/ sw_run
    \/ sr_push_receive_message
    \/ sr_run

(***************************************************************************)
(* DCPS data reader: DataReaderAttributes (on_data_received, read_sample)  *)
(* and DataReaderProxy (read, take) over the RTPS reader's cache.          *)
(***************************************************************************)
SampleStateMasks == {{"NOT_READ"}, {"READ"}, {"NOT_READ", "READ"}}

NoResult == [op |-> "none", status |-> "none", samples |-> <<>>]

\* the writers matched with the data reader; each numbers its changes from 1
MatchedWriters == {"w1", "w2"}

\* Vec::sort of a vector of sequence numbers
RECURSIVE SortedSeq(_)
SortedSeq(seq_nums) ==
    IF seq_nums = <<>> THEN <<>>
    ELSE LET lo == CHOOSE i \in DOMAIN seq_nums :
                       \A j \in DOMAIN seq_nums : seq_nums[i] <= seq_nums[j]
         IN <<seq_nums[lo]>> \o SortedSeq(SubSeq(seq_nums, 1, lo - 1)
                                          \o SubSeq(seq_nums, lo + 1, Len(seq_nums)))

\* HistoryCache::add_change on the reader cache: the change goes to the end
ReaderCacheAddChange(changes, change) == Append(changes, change)

\* HistoryCache::remove_change(|c| to_delete.contains(&c.sequence_number()))
ReaderCacheRemoveChange(changes, to_delete) ==
    SelectSeq(changes, LAMBDA c : c.sequence_number \notin to_delete)

\* on_data_received, KEEP_LAST: with more than depth changes in the cache the
\* len - depth lowest sequence numbers are removed
KeepLastToDelete(changes, history) ==
    IF history.kind = "KeepLast" /\ Len(changes) > history.depth
    THEN LET seq_nums == SortedSeq([i \in DOMAIN changes |-> changes[i].sequence_number])
         IN {seq_nums[i] : i \in 1 .. (Len(changes) - history.depth)}
    ELSE {}

\* read_sample: the sample state reported for a change, READ when its
\* sequence number is in samples_read
SampleStateAlwaysNotRead(samples_read, sn) == "NOT_READ"

SampleState(samples_read, sn) == IF sn \in samples_read THEN "READ" ELSE "NOT_READ"

\* The iterator chain of read: changes().iter().map(read_sample)
\* .filter(sample_state & sample_states != 0).take(max_samples).
\* The chain is lazy: take pulls changes, in cache order, until max_samples
\* of them passed the filter, and read_sample marks every pulled change as
\* read.  Result: the samples kept and the new samples_read.
RECURSIVE ReadChain(_, _, _, _)
ReadChain(changes, samples_read, sample_states, max_samples) ==
    IF max_samples = 0 \/ changes = <<>>
    THEN [samples |-> <<>>, samples_read |-> samples_read]
    ELSE LET sn    == Head(changes).sequence_number
             state == SampleState(samples_read, sn)
             keep  == state \in sample_states
             rest  == ReadChain(Tail(changes), samples_read \cup {sn}, sample_states,
                                IF keep THEN max_samples - 1 ELSE max_samples)
         IN [samples      |-> (IF keep THEN <<[writer_guid |-> Head(changes).writer_guid, sn |-> sn,
                                              sample_state |-> state]>>
                               ELSE <<>>) \o rest.samples,
             samples_read |-> rest.samples_read]

\* The iterator chain of take: the same map and filter, collected whole
\* (max_samples is not used)
RECURSIVE TakeChain(_, _, _)
TakeChain(changes, samples_read, sample_states) ==
    IF changes = <<>>
    THEN [samples |-> <<>>, samples_read |-> samples_read]
    ELSE LET sn    == Head(changes).sequence_number
             state == SampleState(samples_read, sn)
             keep  == state \in sample_states
             rest  == TakeChain(Tail(changes), samples_read \cup {sn}, sample_states)
         IN [samples      |-> (IF keep THEN <<[writer_guid |-> Head(changes).writer_guid, sn |-> sn,
                                              sample_state |-> state]>>
                               ELSE <<>>) \o rest.samples,
             samples_read |-> rest.samples_read]

\* trigger_on_data_available, trigger_on_requested_deadline_missed: the bit of
\* the status is cleared in status_change, then the listener is called
TriggerListenerKeepsBit(status_change, bit) == status_change

TriggerListener(status_change, bit) == status_change \ {bit}

\* DataReaderAttributes::new
ReaderInit ==
    /\ dr_changes = <<>>
    /\ dr_received = {}
    /\ dr_samples_read = {}
    /\ dr_history \in {[kind |-> "KeepAll", depth |-> 0]}
                      \cup {[kind |-> "KeepLast", depth |-> d] : d \in 1 .. MaxDepth}
    /\ dr_listener \in BOOLEAN
    /\ dr_status_change = {}
    /\ dr_result = NoResult

\* The RTPS reader puts a change of the matched writer into the reader cache
\* (in reception order, which a reliable reader does not tie to sequence-number
\* order), then DataReaderAttributes::on_data_received runs: it trims the
\* cache, sets the callback of the deadline timer, sets DATA_AVAILABLE and
\* triggers the listener
OnDataReceived(writers) ==
    \E w \in writers, sn \in 1 .. MaxSeqNum :
        LET change == [writer_guid |-> w, sequence_number |-> sn]
            added  == ReaderCacheAddChange(dr_changes, change)
        IN
        /\ change \notin dr_received
        /\ Cardinality(dr_received) < MaxSamples
        /\ dr_received' = dr_received \cup {change}
        /\ dr_changes' = ReaderCacheRemoveChange(added, KeepLastToDelete(added, dr_history))
        /\ deadline_timer' = TRUE
        /\ dr_status_change' = IF dr_listener
                               THEN TriggerListener(dr_status_change \cup {"DATA_AVAILABLE"},
                                                    "DATA_AVAILABLE")
                               ELSE dr_status_change \cup {"DATA_AVAILABLE"}
        /\ on_data_available_calls' = IF dr_listener THEN on_data_available_calls + 1
                                      ELSE on_data_available_calls
        /\ UNCHANGED <<dr_samples_read, dr_history, dr_listener, dr_result>>
        /\ UNCHANGED <<requested_deadline_missed_status, deadline_pc, get_status_pc,
                       get_status_clone, get_status_result,
                       on_requested_deadline_missed_calls>>
        /\ StatusFrame

dr_on_data_received == OnDataReceived(MatchedWriters)

dr_on_data_received_one_writer == OnDataReceived({"w1"})

\* DataReaderProxy::read
Read(max_samples, sample_states) ==
    LET out == ReadChain(dr_changes, dr_samples_read, sample_states, max_samples) IN
    /\ dr_samples_read' = out.samples_read
    /\ dr_status_change' = IF max_samples > 0 /\ dr_changes # <<>>
                           THEN dr_status_change \ {"DATA_AVAILABLE"}
                           ELSE dr_status_change
    /\ dr_result' = [op      |-> "read",
                     status  |-> IF out.samples = <<>> THEN "NoData" ELSE "Ok",
                     samples |-> out.samples]
    /\ UNCHANGED <<dr_changes, dr_received, dr_history, dr_listener>>
    /\ ReaderCallFrame

dr_read ==
    \E max_samples \in 0 .. MaxSamples, sample_states \in SampleStateMasks :
        Read(max_samples, sample_states) /\ UNCHANGED dr_call

\* DataReaderProxy::take
Take(max_samples, sample_states) ==
    LET out       == TakeChain(dr_changes, dr_samples_read, sample_states)
        to_delete == {out.samples[i].sn : i \in DOMAIN out.samples}
    IN
    /\ dr_samples_read' = out.samples_read
    /\ dr_status_change' = IF dr_changes # <<>>
                           THEN dr_status_change \ {"DATA_AVAILABLE"}
                           ELSE dr_status_change
    /\ dr_changes' = ReaderCacheRemoveChange(dr_changes, to_delete)
    /\ dr_result' = [op |-> "take", status |-> "Ok", samples |-> out.samples]
    /\ UNCHANGED <<dr_received, dr_history, dr_listener>>
    /\ ReaderCallFrame

dr_take ==
    \E max_samples \in {0, MaxSamples}, sample_states \in SampleStateMasks :
        Take(max_samples, sample_states) /\ UNCHANGED dr_call

\* read and take with the arguments of the call kept beside its result
dr_read_call ==
    \E max_samples \in 0 .. MaxSamples + 1, sample_states \in SampleStateMasks :
        /\ Read(max_samples, sample_states)
        /\ dr_call' = [max_samples |-> max_samples, sample_states |-> sample_states]

dr_take_call ==
    \E max_samples \in 0 .. MaxSamples + 1, sample_states \in SampleStateMasks :
        /\ Take(max_samples, sample_states)
        /\ dr_call' = [max_samples |-> max_samples, sample_states |-> sample_states]

\* DataReaderProxy::set_listener
dr_set_listener ==
    \E installed \in BOOLEAN :
        /\ installed # dr_listener
        /\ dr_listener' = installed
        /\ UNCHANGED <<dr_changes, dr_received, dr_samples_read, dr_history,
                       dr_status_change, dr_result>>
        /\ ReaderFrame

ReaderNext ==
    \/ dr_on_data_received
    \/ dr_read
    \/ dr_take
    \/ dr_set_listener

ReaderCallsNext ==
    \/ dr_on_data_received
    \/ dr_read_call
    \/ dr_take_call

(***************************************************************************)
(* Participant discovery: DomainParticipantImpl::add_discovered_participant,*)
(* remove_discovered_participant and ignore_participant, run by the SPDP   *)
(* discovery thread, the timer thread and an application thread.  Every    *)
(* step is one lock acquisition of the code.                               *)
(***************************************************************************)
Participants == {"p1"}

\* the built-in SEDP endpoints in the order add_discovered_participant visits them
AddOrder == <<"publications_writer", "publications_reader", "subscriptions_writer",
              "subscriptions_reader", "topics_writer", "topics_reader">>

\* ... and in the order remove_discovered_participant visits them
RemoveOrder == <<"publications_reader", "subscriptions_reader", "topics_reader",
                 "publications_writer", "subscriptions_writer", "topics_writer">>

BuiltinEndpoints == Range(AddOrder)

\* user-defined endpoints: data readers (hold writer proxies) and data writers
UserEndpoints == {"data_reader", "data_writer"}

\* the SEDP reader whose samples are matched against a kind of user endpoint
SedpReaderFor(endpoint) ==
    IF endpoint = "data_reader" THEN "publications_reader" ELSE "subscriptions_reader"

Threads == {"spdp", "api", "timer"}

Idle == [pc |-> "idle", handle |-> "none", i |-> 0, lease |-> 0]

NoTimer == [deadline |-> -1, period |-> 0]

\* Timer::start_timer(duration, id, callback): a timer of the same id is replaced
StartTimer(timers, id, duration) ==
    [timers EXCEPT ![id] = [deadline |-> now + duration, period |-> duration]]

\* a timer whose deadline has been reached
Due(id) == timer[id].deadline >= 0 /\ timer[id].deadline <= now

DiscoveryInit ==
    /\ discovered_participant_list = {}
    /\ ignored_participants = {}
    /\ builtin_matched = [e \in BuiltinEndpoints |-> {}]
    /\ sedp_samples = [e \in UserEndpoints |-> {}]
    /\ user_matched = [e \in UserEndpoints |-> {}]
    /\ timer = [h \in Participants |-> NoTimer]
    /\ timer_periodic \in BOOLEAN
    /\ now = 0
    /\ threads = [t \in Threads |-> Idle]
    /\ lease_end = [h \in Participants |-> -1]
    /\ ignore_returned = {}

\* add_discovered_participant, entry: ParticipantDiscovery::new (domain id and
\* tag) and the test against ignored_participants, whose lock is released
\* before the body runs
add_discovered_participant_check ==
    \E h \in Participants, lease \in 1 .. MaxLease, same_domain \in BOOLEAN :
        /\ threads["spdp"].pc = "idle"
        /\ threads' = IF same_domain /\ h \notin ignored_participants
                      THEN [threads EXCEPT !["spdp"] =
                               [pc |-> "add_matched_participant", handle |-> h,
                                i |-> 1, lease |-> lease]]
                      ELSE threads
        /\ UNCHANGED <<discovered_participant_list, ignored_participants, builtin_matched,
                       sedp_samples, user_matched, timer, timer_periodic, now,
                       lease_end, ignore_returned>>
        /\ DiscoveryFrame

\* add_discovered_participant: add_matched_participant on the next built-in endpoint
add_discovered_participant_add_matched_participant ==
    LET t == threads["spdp"] IN
    /\ t.pc = "add_matched_participant"
    /\ builtin_matched' = [builtin_matched EXCEPT ![AddOrder[t.i]] = @ \cup {t.handle}]
    /\ threads' = [threads EXCEPT !["spdp"] =
                      IF t.i < Len(AddOrder) THEN [t EXCEPT !.i = t.i + 1]
                      ELSE [t EXCEPT !.pc = "start_timer", !.i = 0]]
    /\ UNCHANGED <<discovered_participant_list, ignored_participants, sedp_samples,
                   user_matched, timer, timer_periodic, now, lease_end, ignore_returned>>
    /\ DiscoveryFrame

\* add_discovered_participant: timer.start_timer(lease_duration, key, remove callback)
add_discovered_participant_start_timer ==
    LET t == threads["spdp"] IN
    /\ t.pc = "start_timer"
    /\ timer' = StartTimer(timer, t.handle, t.lease)
    /\ threads' = [threads EXCEPT !["spdp"] = [t EXCEPT !.pc = "insert"]]
    /\ UNCHANGED <<discovered_participant_list, ignored_participants, builtin_matched,
                   sedp_samples, user_matched, timer_periodic, now, lease_end,
                   ignore_returned>>
    /\ DiscoveryFrame

\* add_discovered_participant: discovered_participant_list.insert(key, data),
\* under the write lock of the list, which remove_discovered_participant holds
\* until it returns
add_discovered_participant_insert ==
    LET t == threads["spdp"] IN
    /\ t.pc = "insert"
    /\ \A th \in Threads : threads[th].pc # "remove_matched_participant"
    /\ discovered_participant_list' = discovered_participant_list \cup {t.handle}
    /\ lease_end' = [lease_end EXCEPT ![t.handle] = now + t.lease]
    /\ threads' = [threads EXCEPT !["spdp"] = Idle]
    /\ UNCHANGED <<ignored_participants, builtin_matched, sedp_samples, user_matched,
                   timer, timer_periodic, now, ignore_returned>>
    /\ DiscoveryFrame

\* ignore_participant: ignored_participants.insert(handle), then the call of
\* remove_discovered_participant
ignore_participant ==
    \E h \in Participants :
        /\ threads["api"].pc = "idle"
        /\ ignored_participants' = ignored_participants \cup {h}
        /\ threads' = [threads EXCEPT !["api"] =
                          [pc |-> "remove", handle |-> h, i |-> 0, lease |-> 0]]
        /\ UNCHANGED <<discovered_participant_list, builtin_matched, sedp_samples,
                       user_matched, timer, timer_periodic, now, lease_end,
                       ignore_returned>>
        /\ DiscoveryFrame

\* the caller of remove_discovered_participant gets control back
Returned(th, h) == IF th = "api" THEN ignore_returned \cup {h} ELSE ignore_returned

\* remove_discovered_participant: discovered_participant_list.remove(handle)
\* under the write lock of the list, whose guard lives to the end of the
\* `if let`; nothing else happens when the handle was not in the list
remove_discovered_participant ==
    \E th \in {"api", "timer"} :
        LET t == threads[th] IN
        /\ t.pc = "remove"
        /\ \A other \in Threads : threads[other].pc # "remove_matched_participant"
        /\ discovered_participant_list' = discovered_participant_list \ {t.handle}
        /\ IF t.handle \in discovered_participant_list
           THEN /\ threads' = [threads EXCEPT ![th] =
                                  [t EXCEPT !.pc = "remove_matched_participant", !.i = 1]]
                /\ UNCHANGED ignore_returned
           ELSE /\ threads' = [threads EXCEPT ![th] = Idle]
                /\ ignore_returned' = Returned(th, t.handle)
        /\ UNCHANGED <<ignored_participants, builtin_matched, sedp_samples, user_matched,
                       timer, timer_periodic, now, lease_end>>
        /\ DiscoveryFrame

\* remove_discovered_participant: remove_matched_participant(prefix) on the
\* next built-in endpoint; the call returns after the last one
remove_discovered_participant_remove_matched_participant ==
    \E th \in {"api", "timer"} :
        LET t == threads[th] IN
        /\ t.pc = "remove_matched_participant"
        /\ builtin_matched' = [builtin_matched EXCEPT ![RemoveOrder[t.i]] = @ \ {t.handle}]
        /\ IF t.i < Len(RemoveOrder)
           THEN /\ threads' = [threads EXCEPT ![th] = [t EXCEPT !.i = t.i + 1]]
                /\ UNCHANGED ignore_returned
           ELSE /\ threads' = [threads EXCEPT ![th] = Idle]
                /\ ignore_returned' = Returned(th, t.handle)
        /\ UNCHANGED <<discovered_participant_list, ignored_participants, sedp_samples,
                       user_matched, timer, timer_periodic, now, lease_end>>
        /\ DiscoveryFrame

\* A built-in SEDP reader receives the data of an endpoint of a participant
\* it holds a writer proxy for
receive_sedp_data ==
    \E e \in UserEndpoints, h \in Participants :
        /\ h \in builtin_matched[SedpReaderFor(e)]
        /\ h \notin sedp_samples[e]
        /\ sedp_samples' = [sedp_samples EXCEPT ![e] = @ \cup {h}]
        /\ UNCHANGED <<discovered_participant_list, ignored_participants, builtin_matched,
                       user_matched, timer, timer_periodic, now, threads, lease_end,
                       ignore_returned>>
        /\ DiscoveryFrame

\* discover_matched_writers / discover_matched_readers: every sample of the
\* SEDP reader whose parent participant is in discovered_participant_list is
\* matched with the user-defined endpoints
discover_matched_endpoints ==
    \E e \in UserEndpoints :
        /\ \A th \in Threads : threads[th].pc # "remove_matched_participant"
        /\ user_matched' = [user_matched EXCEPT ![e] =
                               @ \cup (sedp_samples[e] \cap discovered_participant_list)]
        /\ user_matched' # user_matched
        /\ UNCHANGED <<discovered_participant_list, ignored_participants, builtin_matched,
                       sedp_samples, timer, timer_periodic, now, threads, lease_end,
                       ignore_returned>>
        /\ DiscoveryFrame

\* The lease timer of a handle reaches its deadline: the timer thread calls
\* remove_discovered_participant(handle)
lease_timer_elapsed ==
    \E h \in Participants :
        /\ threads["timer"].pc = "idle"
        /\ Due(h)
        /\ timer' = [timer EXCEPT ![h] =
                        IF timer_periodic
                        THEN [@ EXCEPT !.deadline = @ + timer[h].period]
                        ELSE NoTimer]
        /\ threads' = [threads EXCEPT !["timer"] =
                          [pc |-> "remove", handle |-> h, i |-> 0, lease |-> 0]]
        /\ UNCHANGED <<discovered_participant_list, ignored_participants, builtin_matched,
                       sedp_samples, user_matched, timer_periodic, now, lease_end,
                       ignore_returned>>
        /\ DiscoveryFrame

\* Time passes; a timer that is due runs its callback before the clock moves on
tick ==
    /\ now < MaxTime
    /\ \A h \in Participants : ~Due(h)
    /\ now' = now + 1
    /\ UNCHANGED <<discovered_participant_list, ignored_participants, builtin_matched,
                   sedp_samples, user_matched, timer, timer_periodic, threads,
                   lease_end, ignore_returned>>
    /\ DiscoveryFrame

\* discovery with an application thread that ignores participants; the clock
\* stands still, so no lease expires
DiscoveryNext ==
    \/ add_discovered_participant_check
    \/ add_discovered_participant_add_matched_participant
    \/ add_discovered_participant_start_timer
    \/ add_discovered_participant_insert
    \/ ignore_participant
    \/ remove_discovered_participant
    \/ remove_discovered_participant_remove_matched_participant
    \/ receive_sedp_data
    \/ discover_matched_endpoints

\* discovery with the clock and the lease timers
LeaseNext ==
    \/ add_discovered_participant_check
    \/ add_discovered_participant_add_matched_participant
    \/ add_discovered_participant_start_timer
    \/ add_discovered_participant_insert
    \/ remove_discovered_participant
    \/ remove_discovered_participant_remove_matched_participant
    \/ lease_timer_elapsed
    \/ tick

(***************************************************************************)
(* DCPS entities: DomainParticipantImpl create_* / delete_publisher /      *)
(* enable and PublisherImpl's data writer factory.                         *)
(***************************************************************************)
\* AtomicU8::fetch_add wraps at 2^8
CounterModulus == 256

FetchAdd(counter) == (counter + 1) % CounterModulus

LocalPrefix == "local"

\* Guid::new(prefix, EntityId::new(EntityKey::new(key), kind))
Guid(prefix, entity_key, entity_kind) ==
    [prefix |-> prefix, entity_key |-> entity_key, entity_kind |-> entity_kind]

\* the instance handle of an entity is its GUID
InstanceHandle(guid) == guid

\* the topic find_topic is called for, and another one
TopicNames == {"Sought", "Other"}

\* DomainParticipantImpl::new: the four built-in topics
BuiltinTopics ==
    << [name |-> "DCPS_PARTICIPANT",  guid |-> Guid(LocalPrefix, <<0, 0, 0>>, "BUILT_IN_TOPIC")],
       [name |-> "DCPS_TOPIC",        guid |-> Guid(LocalPrefix, <<0, 0, 1>>, "BUILT_IN_TOPIC")],
       [name |-> "DCPS_PUBLICATION",  guid |-> Guid(LocalPrefix, <<0, 0, 2>>, "BUILT_IN_TOPIC")],
       [name |-> "DCPS_SUBSCRIPTION", guid |-> Guid(LocalPrefix, <<0, 0, 2>>, "BUILT_IN_TOPIC")] >>

\* a publisher of another participant, handed to delete_publisher
ForeignPublisherHandle == InstanceHandle(Guid("remote", <<0, 0, 0>>, "USER_DEFINED_WRITER_GROUP"))

\* Vec::remove(position)
RemoveAt(list, i) == SubSeq(list, 1, i - 1) \o SubSeq(list, i + 1, Len(list))

\* the first position of list whose element satisfies Test, 0 when there is none
FirstPosition(list, Test(_)) ==
    IF \E i \in DOMAIN list : Test(list[i])
    THEN CHOOSE i \in DOMAIN list : Test(list[i]) /\ \A j \in 1 .. i - 1 : ~Test(list[j])
    ELSE 0

Result(op, status, parent, index) ==
    [op |-> op, status |-> status, parent |-> parent, index |-> index]

\* entity.enable() of a data writer created or enabled by its publisher
EnableDataWriter(writer) == [writer EXCEPT !.enabled = TRUE]

\* PublisherImpl::enable once the parent participant is known to be enabled:
\* the publisher is enabled and, with autoenable_created_entities, its writers
EnablePublisher(publisher) ==
    [publisher EXCEPT
        !.enabled = TRUE,
        !.data_writer_list =
            IF publisher.autoenable
            THEN [i \in DOMAIN @ |-> EnableDataWriter(@[i])]
            ELSE @]

\* the test in front of every enable() of a new entity
AutoenableParentDisabledToo(parent_enabled, autoenable) == autoenable

AutoenableCreatedEntity(parent_enabled, autoenable) == parent_enabled /\ autoenable

EntitiesInit ==
    /\ dp_enabled = FALSE
    /\ dp_autoenable \in BOOLEAN
    /\ user_defined_publisher_counter = 0
    /\ user_defined_publisher_list = <<>>
    /\ user_defined_subscriber_counter = 0
    /\ user_defined_subscriber_list = <<>>
    /\ user_defined_topic_counter = 0
    /\ topic_list = <<>>
    /\ ep_result = Result("none", "none", 0, 0)

\* DomainParticipantImpl::create_publisher, for the first counter_limit values
\* of the counter and publisher qos with autoenable in autoenable_choices
CreatePublisher(counter_limit, autoenable_choices) ==
    \E autoenable \in autoenable_choices :
        LET guid      == Guid(LocalPrefix, <<user_defined_publisher_counter, 0, 0>>,
                              "USER_DEFINED_WRITER_GROUP")
            publisher == [guid |-> guid,
                          enabled |-> AutoenableCreatedEntity(dp_enabled, dp_autoenable),
                          autoenable |-> autoenable,
                          user_defined_data_writer_counter |-> 0,
                          data_writer_list |-> <<>>]
        IN
        /\ user_defined_publisher_counter < counter_limit
        /\ Len(user_defined_publisher_list) < MaxPublishers
        /\ user_defined_publisher_counter' = FetchAdd(user_defined_publisher_counter)
        /\ user_defined_publisher_list' = Append(user_defined_publisher_list, publisher)
        /\ ep_result' = Result("create_publisher", "Ok", 0, Len(user_defined_publisher_list) + 1)
        /\ UNCHANGED <<dp_enabled, dp_autoenable, user_defined_subscriber_counter,
                       user_defined_subscriber_list, user_defined_topic_counter, topic_list>>
        /\ EntitiesFrame

create_publisher == CreatePublisher(MaxCreated, BOOLEAN)

\* create_publisher with QosKind::Default, over the whole range of the counter
create_publisher_default_qos == CreatePublisher(CounterModulus, {TRUE})

\* DomainParticipantImpl::delete_publisher, called with the handle of the
\* publisher at a position of the list in targets, or (position 0) with the
\* handle of a publisher of another participant
DeletePublisher(targets) ==
    \E target \in targets :
        LET a_publisher_handle ==
                IF target = 0 THEN ForeignPublisherHandle
                ELSE InstanceHandle(user_defined_publisher_list[target].guid)
            HasHandle(x) == InstanceHandle(x.guid) = a_publisher_handle
            found == FirstPosition(user_defined_publisher_list, HasHandle)
        IN
        /\ IF found = 0
           THEN /\ ep_result' = Result("delete_publisher", "PreconditionNotMet", 0, target)
                /\ UNCHANGED user_defined_publisher_list
           ELSE IF Len(user_defined_publisher_list[found].data_writer_list) > 0
           THEN /\ ep_result' = Result("delete_publisher", "PreconditionNotMet", 0, target)
                /\ UNCHANGED user_defined_publisher_list
           ELSE /\ ep_result' = Result("delete_publisher", "Ok", 0, target)
                /\ user_defined_publisher_list' =
                       SelectSeq(user_defined_publisher_list, LAMBDA x : ~HasHandle(x))
        /\ UNCHANGED <<dp_enabled, dp_autoenable, user_defined_publisher_counter,
                       user_defined_subscriber_counter, user_defined_subscriber_list,
                       user_defined_topic_counter, topic_list>>
        /\ EntitiesFrame

delete_publisher == DeletePublisher(0 .. Len(user_defined_publisher_list))

\* delete_publisher of the publisher created last
delete_publisher_created_last ==
    /\ user_defined_publisher_list # <<>>
    /\ DeletePublisher({Len(user_defined_publisher_list)})

\* DomainParticipantImpl::create_subscriber
create_subscriber ==
    LET guid       == Guid(LocalPrefix, <<user_defined_subscriber_counter, 0, 0>>,
                           "USER_DEFINED_READER_GROUP")
        subscriber == [guid |-> guid,
                       enabled |-> AutoenableCreatedEntity(dp_enabled, dp_autoenable)]
    IN
    /\ user_defined_subscriber_counter < MaxCreated
    /\ user_defined_subscriber_counter' = FetchAdd(user_defined_subscriber_counter)
    /\ user_defined_subscriber_list' = Append(user_defined_subscriber_list, subscriber)
    /\ ep_result' = Result("create_subscriber", "Ok", 0, Len(user_defined_subscriber_list) + 1)
    /\ UNCHANGED <<dp_enabled, dp_autoenable, user_defined_publisher_counter,
                   user_defined_publisher_list, user_defined_topic_counter, topic_list>>
    /\ EntitiesFrame

\* TopicImpl::new as create_topic calls it, then the enable; name stands for
\* the pair of topic name and type name
NewTopic(name) ==
    [guid    |-> Guid(LocalPrefix, <<user_defined_topic_counter, 0, 0>>, "USER_DEFINED_TOPIC"),
     name    |-> name,
     enabled |-> AutoenableCreatedEntity(dp_enabled, dp_autoenable)]

\* DomainParticipantImpl::create_topic with a name out of names
CreateTopic(names) ==
    \E name \in names :
        /\ user_defined_topic_counter < MaxCreated
        /\ user_defined_topic_counter' = FetchAdd(user_defined_topic_counter)
        /\ topic_list' = Append(topic_list, NewTopic(name))
        /\ ep_result' = Result("create_topic", "Ok", 0, Len(topic_list) + 1)
        /\ UNCHANGED <<dp_enabled, dp_autoenable, user_defined_publisher_counter,
                       user_defined_publisher_list, user_defined_subscriber_counter,
                       user_defined_subscriber_list>>
        /\ EntitiesFrame

create_topic == CreateTopic({"Sought"})

create_topic_any_name == CreateTopic(TopicNames)

\* PublisherImpl::datawriter_factory_create_datawriter on the publisher at
\* position parent: the counter is taken first, qos.is_consistent()? may
\* return early, the writer is pushed, then enabled
create_datawriter ==
    \E parent \in DOMAIN user_defined_publisher_list, has_key \in BOOLEAN,
       is_consistent \in BOOLEAN :
        LET publisher == user_defined_publisher_list[parent]
            counter   == publisher.user_defined_data_writer_counter
            guid      == Guid(publisher.guid.prefix,
                              <<publisher.guid.entity_key[1], counter, 0>>,
                              IF has_key THEN "USER_DEFINED_WRITER_WITH_KEY"
                              ELSE "USER_DEFINED_WRITER_NO_KEY")
            writer    == [guid |-> guid,
                          enabled |-> AutoenableCreatedEntity(publisher.enabled,
                                                              publisher.autoenable)]
        IN
        /\ counter < MaxWriters
        /\ user_defined_publisher_list' =
               [user_defined_publisher_list EXCEPT ![parent] =
                   [@ EXCEPT !.user_defined_data_writer_counter = FetchAdd(counter),
                             !.data_writer_list =
                                 IF is_consistent THEN Append(@, writer) ELSE @]]
        /\ ep_result' = IF is_consistent
                        THEN Result("create_datawriter", "Ok", parent,
                                    Len(publisher.data_writer_list) + 1)
                        ELSE Result("create_datawriter", "InconsistentPolicy", parent, 0)
        /\ UNCHANGED <<dp_enabled, dp_autoenable, user_defined_publisher_counter,
                       user_defined_subscriber_counter, user_defined_subscriber_list,
                       user_defined_topic_counter, topic_list>>
        /\ EntitiesFrame

\* PublisherImpl::datawriter_factory_delete_datawriter with the writer at
\* position target of the publisher, or (0) a writer of another publisher
delete_datawriter ==
    \E parent \in DOMAIN user_defined_publisher_list :
        \E target \in 0 .. Len(user_defined_publisher_list[parent].data_writer_list) :
            /\ IF target = 0
               THEN /\ ep_result' = Result("delete_datawriter", "PreconditionNotMet", parent, 0)
                    /\ UNCHANGED user_defined_publisher_list
               ELSE /\ ep_result' = Result("delete_datawriter", "Ok", parent, target)
                    /\ user_defined_publisher_list' =
                           [user_defined_publisher_list EXCEPT
                               ![parent].data_writer_list = RemoveAt(@, target)]
            /\ UNCHANGED <<dp_enabled, dp_autoenable, user_defined_publisher_counter,
                           user_defined_subscriber_counter, user_defined_subscriber_list,
                           user_defined_topic_counter, topic_list>>
            /\ EntitiesFrame

\* DomainParticipantImpl::enable
enable ==
    /\ dp_enabled' = TRUE
    /\ IF ~dp_enabled /\ dp_autoenable
       THEN /\ user_defined_publisher_list' =
                   [i \in DOMAIN user_defined_publisher_list |->
                       EnablePublisher(user_defined_publisher_list[i])]
            /\ user_defined_subscriber_list' =
                   [i \in DOMAIN user_defined_subscriber_list |->
                       [user_defined_subscriber_list[i] EXCEPT !.enabled = TRUE]]
            /\ topic_list' = [i \in DOMAIN topic_list |-> [topic_list[i] EXCEPT !.enabled = TRUE]]
       ELSE UNCHANGED <<user_defined_publisher_list, user_defined_subscriber_list, topic_list>>
    /\ ep_result' = Result("enable", "Ok", 0, 0)
    /\ UNCHANGED <<dp_autoenable, user_defined_publisher_counter,
                   user_defined_subscriber_counter, user_defined_topic_counter>>
    /\ EntitiesFrame

\* PublisherImpl::enable on the publisher at position target
publisher_enable ==
    \E target \in DOMAIN user_defined_publisher_list :
        /\ IF ~dp_enabled
           THEN /\ ep_result' = Result("publisher_enable", "PreconditionNotMet", 0, target)
                /\ UNCHANGED user_defined_publisher_list
           ELSE /\ ep_result' = Result("publisher_enable", "Ok", 0, target)
                /\ user_defined_publisher_list' =
                       [user_defined_publisher_list EXCEPT
                           ![target] = EnablePublisher(@)]
        /\ UNCHANGED <<dp_enabled, dp_autoenable, user_defined_publisher_counter,
                       user_defined_subscriber_counter, user_defined_subscriber_list,
                       user_defined_topic_counter, topic_list>>
        /\ EntitiesFrame

EntitiesNext ==
    \/ create_publisher
    \/ delete_publisher
    \/ create_subscriber
    \/ create_topic
    \/ create_datawriter
    \/ delete_datawriter
    \/ enable
    \/ publisher_enable

\* an application that only creates publishers with default qos and deletes
\* the one it created last
EntityIdsNext ==
    \/ create_publisher_default_qos
    \/ delete_publisher_created_last

(***************************************************************************)
(* The tasks of DcpsService::new and DcpsService::shutdown_tasks.          *)
(***************************************************************************)
\* the threads in the order DcpsService::new pushes them
TaskOrder == <<"spdp_receive", "spdp_discovery", "metatraffic_receive", "metatraffic_send",
               "sedp_discovery", "user_defined_receive", "user_defined_send", "announcer">>

Tasks == Range(TaskOrder)

\* tasks that sleep or wait with a timeout, then send, discover or announce
PeriodicTasks == {"spdp_discovery", "metatraffic_send", "sedp_discovery",
                  "user_defined_send", "announcer"}

\* task_quit.load(Ordering::SeqCst) at the top of a task's loop
TaskQuitNeverSeen(flag) == FALSE

TaskQuit(flag) == flag

TasksInit ==
    /\ quit = FALSE
    /\ service_threads = TaskOrder
    /\ task_pc = [t \in Tasks |-> IF t = "announcer" THEN "start" ELSE "top"]
    /\ shutdown_pc = "idle"
    /\ joining = "none"

\* the announcer announces the participant once before it enters its loop
announcer_start ==
    /\ task_pc["announcer"] = "start"
    /\ task_pc' = [task_pc EXCEPT !["announcer"] = "top"]
    /\ UNCHANGED <<quit, service_threads, shutdown_pc, joining>>
    /\ TasksFrame

\* top of the loop: break when quit is set, otherwise go on to the sleep, the
\* timed wait or the transport read with timeout
TaskCheckQuit(t) ==
    /\ task_pc[t] = "top"
    /\ task_pc' = [task_pc EXCEPT ![t] = IF TaskQuit(quit) THEN "done" ELSE "blocked"]
    /\ UNCHANGED <<quit, service_threads, shutdown_pc, joining>>
    /\ TasksFrame

task_check_quit == \E t \in Tasks : TaskCheckQuit(t)

\* a periodic task: the sleep or timed wait returns and the task sends,
\* runs its discovery pass or announces the participant; the loop starts over
PeriodicTaskEmit(t) ==
    /\ t \in PeriodicTasks
    /\ task_pc[t] = "blocked"
    /\ task_pc' = [task_pc EXCEPT ![t] = "top"]
    /\ UNCHANGED <<quit, service_threads, shutdown_pc, joining>>
    /\ TasksFrame

periodic_task_emit == \E t \in PeriodicTasks : PeriodicTaskEmit(t)

\* a receive task: the transport read returns, with a message that the
\* participant processes or without one; the loop starts over
ReceiveTaskRead(t) ==
    /\ t \in Tasks \ PeriodicTasks
    /\ task_pc[t] = "blocked"
    /\ task_pc' = [task_pc EXCEPT ![t] = "top"]
    /\ UNCHANGED <<quit, service_threads, shutdown_pc, joining>>
    /\ TasksFrame

receive_task_read == \E t \in Tasks \ PeriodicTasks : ReceiveTaskRead(t)

\* shutdown_tasks: quit.store(true)
shutdown_tasks_store ==
    /\ shutdown_pc = "idle"
    /\ quit' = TRUE
    /\ shutdown_pc' = "pop"
    /\ UNCHANGED <<service_threads, task_pc, joining>>
    /\ TasksFrame

\* shutdown_tasks: while let Some(thread) = threads.pop()
shutdown_tasks_pop ==
    /\ shutdown_pc = "pop"
    /\ IF service_threads = <<>>
       THEN /\ shutdown_pc' = "returned"
            /\ UNCHANGED <<service_threads, joining>>
       ELSE /\ shutdown_pc' = "join"
            /\ joining' = service_threads[Len(service_threads)]
            /\ service_threads' = SubSeq(service_threads, 1, Len(service_threads) - 1)
    /\ UNCHANGED <<quit, task_pc>>
    /\ TasksFrame

\* shutdown_tasks: thread.join() returns once the task has left its loop
shutdown_tasks_join ==
    /\ shutdown_pc = "join"
    /\ task_pc[joining] = "done"
    /\ shutdown_pc' = "pop"
    /\ joining' = "none"
    /\ UNCHANGED <<quit, service_threads, task_pc>>
    /\ TasksFrame

TasksNext ==
    \/ announcer_start
    \/ task_check_quit
    \/ periodic_task_emit
    \/ receive_task_read
    \/ shutdown_tasks_store
    \/ shutdown_tasks_pop
    \/ shutdown_tasks_join

\* every running thread is scheduled again; sleeps, timed waits and reads
\* with timeout return
TasksFairness ==
    /\ \A t \in Tasks : WF_vars(TaskCheckQuit(t) \/ PeriodicTaskEmit(t) \/ ReceiveTaskRead(t))
    /\ WF_vars(announcer_start)
    /\ WF_vars(shutdown_tasks_pop \/ shutdown_tasks_join)

(***************************************************************************)
(* DomainParticipantImpl::find_topic, with the threads that create and     *)
(* discover topics and a clock.                                            *)
(***************************************************************************)
NoFindResult == [status |-> "none", name |-> "none", time |-> 0]

\* topic_list.iter().find(name and type match)
LocalTopic(name) == \E i \in DOMAIN topic_list : topic_list[i].name = name

\* discovered_topic_list.iter().find(name and type match)
DiscoveredTopic(name) == name \in discovered_topic_list

\* the loop condition of find_topic: get_current_time() - start_time < timeout
WithinTimeout(t, start_time, timeout) == t - start_time < timeout

FindTopicInit ==
    /\ current_time = 0
    /\ discovered_topic_list = {}
    /\ find_pc = "idle"
    /\ find_start_time = 0
    /\ find_timeout = 0
    /\ find_result = NoFindResult
    /\ find_existed_at_call = FALSE

\* the clock moves on
time_passes ==
    /\ current_time < MaxClock
    /\ current_time' = current_time + 1
    /\ UNCHANGED <<discovered_topic_list, find_pc, find_start_time, find_timeout,
                   find_result, find_existed_at_call>>
    /\ UNCHANGED evars
    /\ FindTopicFrame

\* discover_matched_topics: a sample of the SEDP topics reader is inserted
\* into discovered_topic_list and the waiters of topic_find_condvar are woken
discover_matched_topics ==
    \E name \in TopicNames :
        /\ discovered_topic_list' = discovered_topic_list \cup {name}
        /\ UNCHANGED <<current_time, find_pc, find_start_time, find_timeout,
                       find_result, find_existed_at_call>>
        /\ UNCHANGED evars
        /\ FindTopicFrame

\* find_topic is called for the topic Sought: start_time is taken
find_topic_call ==
    \E timeout \in 0 .. MaxTimeout :
        /\ find_pc = "idle"
        /\ find_pc' = "while"
        /\ find_start_time' = current_time
        /\ find_timeout' = timeout
        /\ find_existed_at_call' = (LocalTopic("Sought") \/ DiscoveredTopic("Sought"))
        /\ UNCHANGED <<current_time, discovered_topic_list, find_result>>
        /\ UNCHANGED evars
        /\ FindTopicFrame

\* while get_current_time() - start_time < timeout { .. } Err(Timeout)
find_topic_while ==
    /\ find_pc = "while"
    /\ IF WithinTimeout(current_time, find_start_time, find_timeout)
       THEN /\ find_pc' = "local"
            /\ UNCHANGED find_result
       ELSE /\ find_pc' = "returned"
            /\ find_result' = [status |-> "Timeout", name |-> "none", time |-> current_time]
    /\ UNCHANGED <<current_time, discovered_topic_list, find_start_time, find_timeout,
                   find_existed_at_call>>
    /\ UNCHANGED evars
    /\ FindTopicFrame

\* the topic exists locally: return Ok(topic.clone())
find_topic_local ==
    /\ find_pc = "local"
    /\ IF LocalTopic("Sought")
       THEN /\ find_pc' = "returned"
            /\ find_result' = [status |-> "Ok", name |-> "Sought", time |-> current_time]
       ELSE /\ find_pc' = "discovered"
            /\ UNCHANGED find_result
    /\ UNCHANGED <<current_time, discovered_topic_list, find_start_time, find_timeout,
                   find_existed_at_call>>
    /\ UNCHANGED evars
    /\ FindTopicFrame

\* the topic has been discovered: return self.create_topic(..); otherwise go
\* on to the wait on topic_find_condvar
find_topic_discovered ==
    /\ find_pc = "discovered"
    /\ IF DiscoveredTopic("Sought")
       THEN /\ find_pc' = "returned"
            /\ user_defined_topic_counter' = FetchAdd(user_defined_topic_counter)
            /\ topic_list' = Append(topic_list, NewTopic("Sought"))
            /\ find_result' = [status |-> "Ok", name |-> "Sought", time |-> current_time]
       ELSE /\ find_pc' = "wait"
            /\ UNCHANGED <<user_defined_topic_counter, topic_list, find_result>>
    /\ UNCHANGED <<current_time, discovered_topic_list, find_start_time, find_timeout,
                   find_existed_at_call>>
    /\ UNCHANGED <<dp_enabled, dp_autoenable, user_defined_publisher_counter,
                   user_defined_publisher_list, user_defined_subscriber_counter,
                   user_defined_subscriber_list, ep_result>>
    /\ FindTopicFrame

\* topic_find_condvar.wait_timeout(..).ok() returns: notified by create_topic
\* or discover_matched_topics, woken spuriously, or timed out
find_topic_wait_timeout ==
    /\ find_pc = "wait"
    /\ find_pc' = "while"
    /\ UNCHANGED <<current_time, discovered_topic_list, find_start_time, find_timeout,
                   find_result, find_existed_at_call>>
    /\ UNCHANGED evars
    /\ FindTopicFrame

FindTopicNext ==
    \/ time_passes
    \/ create_topic_any_name
    \/ discover_matched_topics
    \/ find_topic_call
    \/ find_topic_while
    \/ find_topic_local
    \/ find_topic_discovered
    \/ find_topic_wait_timeout

(***************************************************************************)
(* Data reader statuses: the deadline callback that on_data_received       *)
(* hands to the timer, and get_requested_deadline_missed_status.  The      *)
(* callback runs on the timer's thread; every lock is taken for one        *)
(* statement, so the statements of the two threads interleave.             *)
(***************************************************************************)
NoStatus == [total_count |-> 0, total_count_change |-> 0]

StatusInit ==
    /\ deadline_timer = FALSE
    /\ requested_deadline_missed_status = NoStatus
    /\ deadline_pc = "idle"
    /\ get_status_pc = "idle"
    /\ get_status_clone = NoStatus
    /\ get_status_result = NoStatus
    /\ on_data_available_calls = 0
    /\ on_requested_deadline_missed_calls = 0

\* the deadline passes without data: the timer runs its callback once and
\* drops it; requested_deadline_missed_status.write_lock().total_count += 1
deadline_missed_total_count ==
    /\ deadline_timer
    /\ deadline_pc = "idle"
    /\ deadline_timer' = FALSE
    /\ requested_deadline_missed_status' =
           [requested_deadline_missed_status EXCEPT !.total_count = @ + 1]
    /\ deadline_pc' = "total_count_change"
    /\ UNCHANGED <<get_status_pc, get_status_clone, get_status_result,
                   on_data_available_calls, on_requested_deadline_missed_calls>>
    /\ UNCHANGED rvars
    /\ StatusFrame

\* requested_deadline_missed_status.write_lock().total_count_change += 1
deadline_missed_total_count_change ==
    /\ deadline_pc = "total_count_change"
    /\ requested_deadline_missed_status' =
           [requested_deadline_missed_status EXCEPT !.total_count_change = @ + 1]
    /\ deadline_pc' = "status_change"
    /\ UNCHANGED <<deadline_timer, get_status_pc, get_status_clone, get_status_result,
                   on_data_available_calls, on_requested_deadline_missed_calls>>
    /\ UNCHANGED rvars
    /\ StatusFrame

\* *status_change.write_lock() |= REQUESTED_DEADLINE_MISSED_STATUS
deadline_missed_status_change ==
    /\ deadline_pc = "status_change"
    /\ dr_status_change' = dr_status_change \cup {"REQUESTED_DEADLINE_MISSED"}
    /\ deadline_pc' = "listener"
    /\ UNCHANGED <<dr_changes, dr_received, dr_samples_read, dr_history, dr_listener,
                   dr_result>>
    /\ UNCHANGED <<deadline_timer, requested_deadline_missed_status, get_status_pc,
                   get_status_clone, get_status_result, on_data_available_calls,
                   on_requested_deadline_missed_calls>>
    /\ StatusFrame

\* listener.read_lock().as_ref().map(|l| l.trigger_on_requested_deadline_missed(..))
deadline_missed_listener ==
    /\ deadline_pc = "listener"
    /\ deadline_pc' = "idle"
    /\ IF dr_listener
       THEN /\ dr_status_change' = TriggerListener(dr_status_change,
                                                   "REQUESTED_DEADLINE_MISSED")
            /\ on_requested_deadline_missed_calls' = on_requested_deadline_missed_calls + 1
       ELSE UNCHANGED <<dr_status_change, on_requested_deadline_missed_calls>>
    /\ UNCHANGED <<dr_changes, dr_received, dr_samples_read, dr_history, dr_listener,
                   dr_result>>
    /\ UNCHANGED <<deadline_timer, requested_deadline_missed_status, get_status_pc,
                   get_status_clone, get_status_result, on_data_available_calls>>
    /\ StatusFrame

\* get_requested_deadline_missed_status:
\* let status = requested_deadline_missed_status.read_lock().clone()
get_requested_deadline_missed_status_clone ==
    /\ get_status_pc = "idle"
    /\ get_status_clone' = requested_deadline_missed_status
    /\ get_status_pc' = "reset"
    /\ UNCHANGED <<deadline_timer, requested_deadline_missed_status, deadline_pc,
                   get_status_result, on_data_available_calls,
                   on_requested_deadline_missed_calls>>
    /\ UNCHANGED rvars
    /\ StatusFrame

\* requested_deadline_missed_status.write_lock().total_count_change = 0; Ok(status)
get_requested_deadline_missed_status_reset ==
    /\ get_status_pc = "reset"
    /\ requested_deadline_missed_status' =
           [requested_deadline_missed_status EXCEPT !.total_count_change = 0]
    /\ get_status_result' = get_status_clone
    /\ returned_total_count_change' =
           returned_total_count_change + get_status_clone.total_count_change
    /\ get_status_pc' = "idle"
    /\ UNCHANGED <<deadline_timer, deadline_pc, get_status_clone, on_data_available_calls,
                   on_requested_deadline_missed_calls>>
    /\ UNCHANGED rvars
    /\ StatusReturnFrame

StatusNext ==
    \/ dr_on_data_received_one_writer
    \/ dr_set_listener
    \/ deadline_missed_total_count
    \/ deadline_missed_total_count_change
    \/ deadline_missed_status_change
    \/ deadline_missed_listener
    \/ get_requested_deadline_missed_status_clone
    \/ get_requested_deadline_missed_status_reset

(***************************************************************************)
(* A reader proxy of a writer: RtpsReaderProxy and the operations of       *)
(* WriterAssociatedReaderProxy, with the writer's change list.             *)
(***************************************************************************)
\* Option<SequenceNumber> as a sequence: None is <<>>, Some(sn) is <<sn>>
None == <<>>

Some(sn) == <<sn>>

Bool(b) == IF b THEN "true" ELSE "false"

\* Iterator::min and Iterator::max over sequence numbers
IterMin(S) == IF S = {} THEN None ELSE Some(CHOOSE x \in S : \A y \in S : x <= y)

IterMax(S) == IF S = {} THEN None ELSE Some(CHOOSE x \in S : \A y \in S : x >= y)

\* next_unsent_change with the filter letting highest_sent_seq_num itself through
NextUnsentChangeFromHighestSent(changes, highest_sent) ==
    IterMin({sn \in changes : sn >= highest_sent})

\* next_unsent_change: the lowest sequence number of the change list above
\* highest_sent_seq_num
NextUnsentChange(changes, highest_sent) ==
    IterMin({sn \in changes : sn > highest_sent})

\* unacked_changes: the highest sequence number of the change list is above
\* highest_acked_seq_num
UnackedChanges(changes, highest_acked) ==
    LET highest_available_seq_num == IterMax(changes) IN
    IF highest_available_seq_num = None THEN FALSE
    ELSE highest_available_seq_num[1] > highest_acked

\* RtpsReaderProxy::new, for a reader matched by a writer without changes
ProxyInit ==
    /\ change_list = {}
    /\ reliability \in {"BestEffort", "Reliable"}
    /\ highest_sent_seq_num = 0
    /\ highest_acked_seq_num = 0
    /\ requested_changes = <<>>
    /\ last_received_acknack_count = 0
    /\ first_relevant_sample_seq_num = 0
    /\ proxy_result = [op |-> "none", value |-> None, flag |-> "none"]
    /\ drained = <<>>

\* the writer adds a change to its change list
writer_add_change ==
    \E sn \in (1 .. MaxProxySeqNum) \ change_list :
        /\ change_list' = change_list \cup {sn}
        /\ UNCHANGED <<reliability, highest_sent_seq_num, highest_acked_seq_num,
                       requested_changes, last_received_acknack_count,
                       first_relevant_sample_seq_num, proxy_result, drained>>
        /\ ProxyFrame

\* the writer removes a change from its change list
writer_remove_change ==
    \E sn \in change_list :
        /\ change_list' = change_list \ {sn}
        /\ UNCHANGED <<reliability, highest_sent_seq_num, highest_acked_seq_num,
                       requested_changes, last_received_acknack_count,
                       first_relevant_sample_seq_num, proxy_result, drained>>
        /\ ProxyFrame

\* WriterAssociatedReaderProxy::set_highest_sent_seq_num
set_highest_sent_seq_num ==
    \E seq_num \in 0 .. MaxProxySeqNum :
        /\ highest_sent_seq_num' = IF seq_num > highest_sent_seq_num THEN seq_num
                                   ELSE highest_sent_seq_num
        /\ proxy_result' = [op |-> "set_highest_sent_seq_num", value |-> None, flag |-> "none"]
        /\ UNCHANGED <<change_list, reliability, highest_acked_seq_num, requested_changes,
                       last_received_acknack_count, first_relevant_sample_seq_num, drained>>
        /\ ProxyFrame

\* WriterAssociatedReaderProxy::set_first_relevant_sample_seq_num
set_first_relevant_sample_seq_num ==
    \E seq_num \in 0 .. MaxProxySeqNum :
        /\ first_relevant_sample_seq_num' = seq_num
        /\ proxy_result' = [op |-> "set_first_relevant_sample_seq_num",
                            value |-> None,
                            flag |-> "none"]
        /\ UNCHANGED <<change_list, reliability, highest_sent_seq_num, highest_acked_seq_num,
                       requested_changes, last_received_acknack_count, drained>>
        /\ ProxyFrame

\* WriterAssociatedReaderProxy::next_unsent_change
next_unsent_change ==
    /\ proxy_result' = [op |-> "next_unsent_change",
                        value |-> NextUnsentChange(change_list, highest_sent_seq_num),
                        flag |-> "none"]
    /\ UNCHANGED <<change_list, reliability, highest_sent_seq_num, highest_acked_seq_num,
                   requested_changes, last_received_acknack_count,
                   first_relevant_sample_seq_num, drained>>
    /\ ProxyFrame

\* WriterAssociatedReaderProxy::unsent_changes
unsent_changes ==
    /\ proxy_result' = [op |-> "unsent_changes",
                        value |-> None,
                        flag |-> Bool(NextUnsentChange(change_list, highest_sent_seq_num) # None)]
    /\ UNCHANGED <<change_list, reliability, highest_sent_seq_num, highest_acked_seq_num,
                   requested_changes, last_received_acknack_count,
                   first_relevant_sample_seq_num, drained>>
    /\ ProxyFrame

\* WriterAssociatedReaderProxy::unacked_changes
unacked_changes ==
    /\ proxy_result' = [op |-> "unacked_changes",
                        value |-> None,
                        flag |-> Bool(UnackedChanges(change_list, highest_acked_seq_num))]
    /\ UNCHANGED <<change_list, reliability, highest_sent_seq_num, highest_acked_seq_num,
                   requested_changes, last_received_acknack_count,
                   first_relevant_sample_seq_num, drained>>
    /\ ProxyFrame

\* RtpsStatefulWriterImpl::is_acked_by_all of the writer the proxy belongs
\* to: the body is todo!(), the call panics
is_acked_by_all ==
    /\ proxy_result' = [op |-> "is_acked_by_all", value |-> None, flag |-> "panic"]
    /\ UNCHANGED <<change_list, reliability, highest_sent_seq_num, highest_acked_seq_num,
                   requested_changes, last_received_acknack_count,
                   first_relevant_sample_seq_num, drained>>
    /\ ProxyFrame

\* sending to the reader behind the proxy
ProxySendNext ==
    \/ writer_add_change
    \/ writer_remove_change
    \/ set_highest_sent_seq_num
    \/ set_first_relevant_sample_seq_num
    \/ next_unsent_change
    \/ unsent_changes

\* acked_changes_set that stores the committed number without comparing
AckedChangesSetUnconditional(highest_acked, committed_seq_num) == committed_seq_num

\* acked_changes_set: highest_acked_seq_num is only ever raised
AckedChangesSet(highest_acked, committed_seq_num) ==
    IF committed_seq_num > highest_acked THEN committed_seq_num ELSE highest_acked

\* requested_changes_set: each number is pushed unless the list contains it
RECURSIVE RequestedChangesSet(_, _)
RequestedChangesSet(requested, req_seq_num_set) ==
    IF req_seq_num_set = <<>> THEN requested
    ELSE LET seq_num == Head(req_seq_num_set) IN
         RequestedChangesSet(
             IF seq_num \in Range(requested) THEN requested ELSE Append(requested, seq_num),
             Tail(req_seq_num_set))

\* next_requested_change that picks the highest requested number
NextRequestedChangeHighest(requested) == IterMax(Range(requested))

\* next_requested_change: the lowest requested number
NextRequestedChange(requested) == IterMin(Range(requested))

\* WriterAssociatedReaderProxy::acked_changes_set
acked_changes_set ==
    \E committed_seq_num \in 0 .. MaxProxySeqNum :
        /\ highest_acked_seq_num' = AckedChangesSet(highest_acked_seq_num, committed_seq_num)
        /\ proxy_result' = [op |-> "acked_changes_set",
                            value |-> Some(committed_seq_num),
                            flag |-> "none"]
        /\ UNCHANGED <<change_list, reliability, highest_sent_seq_num, requested_changes,
                       last_received_acknack_count, first_relevant_sample_seq_num, drained>>
        /\ ProxyFrame

\* WriterAssociatedReaderProxy::requested_changes_set
requested_changes_set ==
    \E req_seq_num_set \in
           {<<>>} \cup {<<a>> : a \in 1 .. MaxProxySeqNum}
                  \cup {<<a, b>> : a \in 1 .. MaxProxySeqNum, b \in 1 .. MaxProxySeqNum} :
        /\ requested_changes' = RequestedChangesSet(requested_changes, req_seq_num_set)
        /\ drained' = <<>>
        /\ proxy_result' = [op |-> "requested_changes_set", value |-> None, flag |-> "none"]
        /\ UNCHANGED <<change_list, reliability, highest_sent_seq_num, highest_acked_seq_num,
                       last_received_acknack_count, first_relevant_sample_seq_num>>
        /\ ProxyFrame

\* WriterAssociatedReaderProxy::next_requested_change
next_requested_change ==
    LET next_requested == NextRequestedChange(requested_changes) IN
    /\ requested_changes' =
           IF next_requested = None THEN requested_changes
           ELSE SelectSeq(requested_changes, LAMBDA sn : sn # next_requested[1])
    /\ drained' = drained \o next_requested
    /\ proxy_result' = [op |-> "next_requested_change",
                        value |-> next_requested,
                        flag |-> "none"]
    /\ UNCHANGED <<change_list, reliability, highest_sent_seq_num, highest_acked_seq_num,
                   last_received_acknack_count, first_relevant_sample_seq_num>>
    /\ ProxyFrame

\* an AckNack whose count is below the last received one only
AckNackIsStaleBelow(count, last_received) == count < last_received

\* an AckNack is a duplicate or stale: its count is not above the last received one
AckNackIsStale(count, last_received) == count <= last_received

\* the writer processes an AckNack of the reader behind the proxy: a count
\* not above last_received_acknack_count discards it, otherwise base - 1 is
\* acknowledged, the set is requested and the count is stored
on_acknack_submessage_received ==
    \E count \in 1 .. MaxCount, base \in 1 .. MaxProxySeqNum + 1 :
    \E set \in {<<>>} \cup {<<a>> : a \in base .. MaxProxySeqNum}
                     \cup {<<a, b>> \in (base .. MaxProxySeqNum) \X (base .. MaxProxySeqNum) :
                               a < b} :
        /\ IF AckNackIsStale(count, last_received_acknack_count)
           THEN /\ proxy_result' = [op |-> "on_acknack_submessage_received",
                                    value |-> <<count, base>>,
                                    flag |-> "discarded"]
                /\ UNCHANGED <<highest_acked_seq_num, requested_changes,
                               last_received_acknack_count, drained>>
           ELSE /\ highest_acked_seq_num' = AckedChangesSet(highest_acked_seq_num, base - 1)
                /\ requested_changes' = RequestedChangesSet(requested_changes, set)
                /\ last_received_acknack_count' = count
                /\ drained' = <<>>
                /\ proxy_result' = [op |-> "on_acknack_submessage_received",
                                    value |-> <<count, base>>,
                                    flag |-> "accepted"]
        /\ UNCHANGED <<change_list, reliability, highest_sent_seq_num,
                       first_relevant_sample_seq_num>>
        /\ ProxyFrame

\* what the reader behind the proxy has acknowledged of the writer's changes
ProxyAckedNext ==
    \/ writer_add_change
    \/ acked_changes_set
    \/ unacked_changes
    \/ is_acked_by_all

\* the AckNacks of the reader behind the proxy and the changes it requests
ProxyAckNackNext ==
    \/ on_acknack_submessage_received
    \/ acked_changes_set
    \/ requested_changes_set
    \/ next_requested_change

(***************************************************************************)
(* The submessage codec: SubmessageHeader compose / parse, and the INFO_TS *)
(* and INFO_DST submessages written into bytes and read back.              *)
(***************************************************************************)
\* enum SubmessageKind, each kind with its octet
SubmessageKind ==
    [Pad |-> 1, AckNack |-> 6, Heartbeat |-> 7, Gap |-> 8, InfoTimestamp |-> 9,
     InfoSource |-> 12, InfoReplyIP4 |-> 13, InfoDestination |-> 14, InfoReply |-> 15,
     NackFrag |-> 18, HeartbeatFrag |-> 19, Data |-> 21, DataFrag |-> 22]

\* an unsigned integer is held as its octets, most significant first; on the
\* wire they go in that order (big endian) or reversed (little endian)
ByteOrder(octets, little_endian) ==
    IF little_endian THEN [i \in 1 .. Len(octets) |-> octets[Len(octets) + 1 - i]]
    ELSE octets

\* RtpsSerialize for [SubmessageFlag; 8]: flag i is bit i of the octet
RECURSIVE FlagsSerialize(_)
FlagsSerialize(flags) ==
    IF flags = <<>> THEN 0
    ELSE (IF Head(flags) THEN 1 ELSE 0) + 2 * FlagsSerialize(Tail(flags))

\* RtpsParse for [SubmessageFlag; 8] with a mask that stops short of the top bit
FlagsParseSevenBits(octet) ==
    [i \in 1 .. 8 |-> i < 8 /\ (octet \div (2 ^ (i - 1))) % 2 = 1]

\* RtpsParse for [SubmessageFlag; 8]: the mask moves over the eight bits
FlagsParse(octet) ==
    [i \in 1 .. 8 |-> (octet \div (2 ^ (i - 1))) % 2 = 1]

\* RtpsCompose for SubmessageHeader
SubmessageHeaderCompose(header) ==
    LET endianness == header.flags[1] IN
    <<SubmessageKind[header.submessage_id], FlagsSerialize(header.flags)>>
        \o ByteOrder(header.submessage_length, endianness)

\* RtpsParse for SubmessageHeader
SubmessageHeaderParse(bytes) ==
    LET kinds == {k \in DOMAIN SubmessageKind : SubmessageKind[k] = bytes[1]}
        flags == FlagsParse(bytes[2])
        endianness == flags[1] IN
    IF kinds = {} THEN [tag |-> "error"]
    ELSE [tag |-> "header",
          submessage_id |-> CHOOSE k \in kinds : TRUE,
          flags |-> flags,
          submessage_length |-> ByteOrder(SubSeq(bytes, 3, 4), endianness)]

\* SubmessageHeaderWrite: the endianness flag is set (little endian) and the
\* submessage's own flags follow it from bit 1 on
SubmessageHeaderWrite(submessage_id, flags, octets_to_next_header) ==
    <<SubmessageKind[submessage_id], FlagsSerialize(<<TRUE>> \o flags)>>
        \o ByteOrder(octets_to_next_header, TRUE)

\* Time is seconds and fraction, each an unsigned 32 bit integer
TIME_INVALID == <<<<255, 255, 255, 255>>, <<255, 255, 255, 255>>>>

\* InfoTimestampSubmessageWrite::new and the bytes of the submessage
InfoTimestampSubmessageWrite(invalidate_flag, timestamp) ==
    LET timestamp_submessage_element ==
            IF ~invalidate_flag THEN Some(timestamp) ELSE None
        elements ==
            IF timestamp_submessage_element = None THEN <<>>
            ELSE ByteOrder(timestamp_submessage_element[1][1], TRUE)
                     \o ByteOrder(timestamp_submessage_element[1][2], TRUE) IN
    SubmessageHeaderWrite("InfoTimestamp", <<invalidate_flag>>, <<0, Len(elements)>>)
        \o elements

\* SubmessageHeaderRead and InfoTimestampSubmessageRead::try_from_bytes
InfoTimestampSubmessageRead(bytes) ==
    LET flags == FlagsParse(bytes[2])
        endianness == flags[1]
        invalidate_flag == flags[2]
        data == SubSeq(bytes, 5, Len(bytes)) IN
    IF invalidate_flag
    THEN [tag |-> "info_ts", invalidate_flag |-> invalidate_flag, timestamp |-> TIME_INVALID]
    ELSE IF Len(data) < 8 THEN [tag |-> "error"]
    ELSE [tag |-> "info_ts", invalidate_flag |-> invalidate_flag,
          timestamp |-> <<ByteOrder(SubSeq(data, 1, 4), endianness),
                          ByteOrder(SubSeq(data, 5, 8), endianness)>>]

\* InfoDestinationSubmessageWrite: the header and the twelve octets of the prefix
InfoDestinationSubmessageWrite(guid_prefix) ==
    SubmessageHeaderWrite("InfoDestination", <<>>, <<0, Len(guid_prefix)>>) \o guid_prefix

\* SubmessageHeaderRead and InfoDestinationSubmessageRead::try_from_bytes
InfoDestinationSubmessageRead(bytes) ==
    LET data == SubSeq(bytes, 5, Len(bytes)) IN
    IF Len(data) < 12 THEN [tag |-> "error"]
    ELSE [tag |-> "info_dst", guid_prefix |-> SubSeq(data, 1, 12)]

\* the values handed to the encoders
CodecValues ==
    [tag : {"header"}, submessage_id : DOMAIN SubmessageKind,
     flags : [1 .. 8 -> BOOLEAN],
     submessage_length : {<<0, 0>>, <<1, 2>>}]
    \cup [tag : {"info_ts"}, invalidate_flag : BOOLEAN,
          timestamp : {TIME_INVALID, <<<<0, 0, 0, 4>>, <<0, 0, 0, 0>>>>,
                       <<<<1, 2, 3, 4>>, <<128, 0, 1, 2>>>>}]
    \cup [tag : {"info_dst"},
          guid_prefix : {[i \in 1 .. 12 |-> 0], [i \in 1 .. 12 |-> i],
                         [i \in 1 .. 12 |-> 255 - i]}]

CodecInit ==
    /\ codec_value \in CodecValues
    /\ codec_bytes = <<>>
    /\ codec_decoded = [tag |-> "none"]

\* compose / write_into_bytes of the value
codec_write ==
    /\ codec_bytes = <<>>
    /\ codec_bytes' =
           CASE codec_value.tag = "header" -> SubmessageHeaderCompose(codec_value)
             [] codec_value.tag = "info_ts" ->
                    InfoTimestampSubmessageWrite(codec_value.invalidate_flag,
                                                 codec_value.timestamp)
             [] codec_value.tag = "info_dst" ->
                    InfoDestinationSubmessageWrite(codec_value.guid_prefix)
    /\ UNCHANGED <<codec_value, codec_decoded>>
    /\ CodecFrame

\* parse / try_from_bytes of the bytes written
codec_read ==
    /\ codec_bytes # <<>>
    /\ codec_decoded.tag = "none"
    /\ codec_decoded' =
           CASE codec_value.tag = "header" -> SubmessageHeaderParse(codec_bytes)
             [] codec_value.tag = "info_ts" -> InfoTimestampSubmessageRead(codec_bytes)
             [] codec_value.tag = "info_dst" -> InfoDestinationSubmessageRead(codec_bytes)
    /\ UNCHANGED <<codec_value, codec_bytes>>
    /\ CodecFrame

CodecNext ==
    \/ codec_write
    \/ codec_read

\* a submessage header arrives in a datagram: its flags and length are those
\* of the value, its id octet is any octet, known kind or not
codec_receive ==
    /\ codec_bytes = <<>>
    /\ codec_value.tag = "header"
    /\ \E id \in {SubmessageKind.Data, SubmessageKind.InfoTimestamp, 0, 128} :
           codec_bytes' = <<id>> \o Tail(SubmessageHeaderCompose(codec_value))
    /\ UNCHANGED <<codec_value, codec_decoded>>
    /\ CodecFrame

CodecReceiveNext ==
    \/ codec_receive
    \/ codec_read

(***************************************************************************)
(* Actor and ActorAddress: the Actor and its clones hold a Sender of the   *)
(* mailbox channel, an ActorAddress holds a WeakSender.                    *)
(***************************************************************************)
\* the threads that send through an ActorAddress
AddressSenders == {"a1", "a2"}

\* the Senders of the channel that are alive: those of the Actor and of its
\* clones ignoring those upgraded by calls in progress
StrongSendersOfActors(pc) == (IF actor_alive THEN 1 ELSE 0) + actor_clones

\* the Senders of the channel that are alive: those of the Actor and of its
\* clones, and those upgraded by calls in progress
StrongSenders(pc) ==
    (IF actor_alive THEN 1 ELSE 0) + actor_clones
        + Cardinality({t \in AddressSenders : pc[t] = "upgraded"})

\* Actor::spawn
ActorInit ==
    /\ actor_alive = TRUE
    /\ actor_clones = 0
    /\ mailbox = 0
    /\ send_pc = [t \in AddressSenders |-> "idle"]
    /\ send_result = [t \in AddressSenders |-> "none"]

\* Clone for Actor
actor_clone ==
    /\ actor_alive \/ actor_clones > 0
    /\ actor_clones < MaxClones
    /\ actor_clones' = actor_clones + 1
    /\ UNCHANGED <<actor_alive, mailbox, send_pc, send_result>>
    /\ ActorFrame

\* the Actor returned by spawn is dropped
actor_drop ==
    /\ actor_alive
    /\ actor_alive' = FALSE
    /\ UNCHANGED <<actor_clones, mailbox, send_pc, send_result>>
    /\ ActorFrame

\* a clone of the Actor is dropped
actor_clone_drop ==
    /\ actor_clones > 0
    /\ actor_clones' = actor_clones - 1
    /\ UNCHANGED <<actor_alive, mailbox, send_pc, send_result>>
    /\ ActorFrame

\* Actor::send_actor_message: the send completes when the channel has room
actor_send_actor_message ==
    /\ actor_alive \/ actor_clones > 0
    /\ mailbox < MailboxCapacity
    /\ mailbox' = mailbox + 1
    /\ UNCHANGED <<actor_alive, actor_clones, send_pc, send_result>>
    /\ ActorFrame

\* ActorAddress::send_actor_message, self.sender.upgrade(): a Sender while
\* any Sender of the channel is alive, otherwise Err(AlreadyDeleted)
address_send_actor_message ==
    \E t \in AddressSenders :
        /\ send_pc[t] = "idle"
        /\ IF StrongSenders(send_pc) > 0
           THEN /\ send_pc' = [send_pc EXCEPT ![t] = "upgraded"]
                /\ send_result' = [send_result EXCEPT ![t] = "none"]
           ELSE /\ send_result' = [send_result EXCEPT ![t] = "AlreadyDeleted"]
                /\ UNCHANGED send_pc
        /\ UNCHANGED <<actor_alive, actor_clones, mailbox>>
        /\ ActorFrame

\* ActorAddress::send_actor_message, s.send(message).await: completes when the
\* channel has room, then the upgraded Sender is dropped and Ok(()) returned
address_send_actor_message_sent ==
    \E t \in AddressSenders :
        /\ send_pc[t] = "upgraded"
        /\ mailbox < MailboxCapacity
        /\ mailbox' = mailbox + 1
        /\ send_pc' = [send_pc EXCEPT ![t] = "idle"]
        /\ send_result' = [send_result EXCEPT ![t] = "Ok"]
        /\ UNCHANGED <<actor_alive, actor_clones>>
        /\ ActorFrame

\* the spawned task: mailbox.recv() and handle_message
mailbox_recv ==
    /\ mailbox > 0
    /\ mailbox' = mailbox - 1
    /\ UNCHANGED <<actor_alive, actor_clones, send_pc, send_result>>
    /\ ActorFrame

ActorNext ==
    \/ actor_clone
    \/ actor_drop
    \/ actor_clone_drop
    \/ actor_send_actor_message
    \/ address_send_actor_message
    \/ address_send_actor_message_sent
    \/ mailbox_recv

(***************************************************************************)
(* MessageReceiver::process_message: the loop over the submessages of one  *)
(* datagram.                                                               *)
(***************************************************************************)
\* the submessages a datagram is made of
SubmessagesRead ==
    [kind : {"Data"}, writer_sn : {1, 2}]
    \cup [kind : {"InfoTimestamp"}, invalidate_flag : BOOLEAN,
          timestamp : {<<<<0, 0, 0, 4>>, <<0, 0, 0, 0>>>>,
                       <<<<1, 2, 3, 4>>, <<128, 0, 1, 2>>>>}]
    \cup [kind : {"InfoDestination"}, guid_prefix : {"participant", "other"}]
    \cup [kind : {"Heartbeat"}]

\* MessageReceiver::new and the head of process_message, for a datagram of
\* the remote participant "source"
MessageReceiverInit ==
    /\ \E n \in 1 .. MaxSubmessages : rtps_message \in [1 .. n -> SubmessagesRead]
    /\ message_receiver = [source_guid_prefix |-> "source",
                           dest_guid_prefix |-> "participant",
                           have_timestamp |-> FALSE,
                           timestamp |-> TIME_INVALID]
    /\ submessage_index = 1
    /\ dispatched = <<>>
    /\ receiver_pc = "running"

\* the submessage the loop is at
Submessage == rtps_message[submessage_index]

\* the list of entities handed to process_message
EntityList == <<"e1", "e2">>

\* RtpsSubmessageTypeRead::Data: process_data_submessage of every element of
\* the list, in its order, is called with the source GUID prefix and the
\* submessage
process_data_submessage ==
    /\ receiver_pc = "running"
    /\ submessage_index <= Len(rtps_message)
    /\ Submessage.kind \in {"Data"}
    /\ dispatched' = dispatched \o
           [e \in 1 .. Len(EntityList) |->
               [element |-> EntityList[e],
                source_guid_prefix |-> message_receiver.source_guid_prefix,
                data |-> Submessage]]
    /\ submessage_index' = submessage_index + 1
    /\ UNCHANGED <<message_receiver, rtps_message, receiver_pc>>
    /\ ReceiverFrame

\* RtpsSubmessageTypeRead::InfoTimestamp: process_info_timestamp_submessage
process_info_timestamp_submessage ==
    /\ receiver_pc = "running"
    /\ submessage_index <= Len(rtps_message)
    /\ Submessage.kind \in {"InfoTimestamp"}
    /\ message_receiver' =
           IF Submessage.invalidate_flag = FALSE
           THEN [message_receiver EXCEPT !.have_timestamp = TRUE,
                                         !.timestamp = Submessage.timestamp]
           ELSE [message_receiver EXCEPT !.have_timestamp = FALSE,
                                         !.timestamp = TIME_INVALID]
    /\ submessage_index' = submessage_index + 1
    /\ UNCHANGED <<rtps_message, dispatched, receiver_pc>>
    /\ ReceiverFrame

\* every other kind of submessage, InfoDestination included: todo!()
process_submessage_todo ==
    /\ receiver_pc = "running"
    /\ submessage_index <= Len(rtps_message)
    /\ Submessage.kind \in {"InfoDestination", "Heartbeat"}
    /\ receiver_pc' = "panicked"
    /\ UNCHANGED <<message_receiver, rtps_message, submessage_index, dispatched>>
    /\ ReceiverFrame

ReceiverNext ==
    \/ process_data_submessage
    \/ process_info_timestamp_submessage
    \/ process_submessage_todo

(***************************************************************************)
(* SequenceNumberSetUdp: a base, num_bits and a bitmap of 8 words of 32    *)
(* bits.  A word is held as the set of the positions of its 1 bits (bit p  *)
(* is 1 << p); a SequenceNumberUdp is [high, low], and the sequence        *)
(* numbers of the model are below 2^31, whose high word is 0.              *)
(***************************************************************************)
\* SequenceNumberSetUdp::new: the loop over the slice, from the empty bitmap
RECURSIVE SequenceNumberSetUdpNewNumBitsIsDelta(_, _, _)
SequenceNumberSetUdpNewNumBitsIsDelta(base, set, acc) ==
    IF set = <<>> THEN acc
    ELSE LET delta_n == Head(set) - base.low
             bitmap_num == delta_n \div 32
         IN  SequenceNumberSetUdpNewNumBitsIsDelta(base, Tail(set),
                 [acc EXCEPT !.bitmap[bitmap_num + 1] = @ \cup {31 - (delta_n % 32)},
                             !.num_bits = IF delta_n > @ THEN delta_n ELSE @])

RECURSIVE SequenceNumberSetUdpNew(_, _, _)
SequenceNumberSetUdpNew(base, set, acc) ==
    IF set = <<>> THEN acc
    ELSE LET delta_n == Head(set) - base.low
             bitmap_num == delta_n \div 32
         IN  SequenceNumberSetUdpNew(base, Tail(set),
                 [acc EXCEPT !.bitmap[bitmap_num + 1] = @ \cup {31 - (delta_n % 32)},
                             !.num_bits = IF delta_n + 1 > @ THEN delta_n + 1 ELSE @])

\* SequenceNumberSetUdp::set: the scan of delta_n over 0 .. num_bits - 1
SequenceNumberSetUdpSet(self) ==
    LET IsSet(delta_n) == 31 - (delta_n % 32) \in self.bitmap[(delta_n \div 32) + 1]
        selected == SelectSeq([i \in 1 .. self.num_bits |-> i - 1], IsSet)
    IN  [i \in 1 .. Len(selected) |-> self.base.low + selected[i]]

\* SequenceNumberSetUdp::len
SequenceNumberSetUdpLen(self) ==
    LET number_of_bitmap_elements == (self.num_bits + 31) \div 32
    IN  12 + 4 * number_of_bitmap_elements

\* the slices handed to new: sequence numbers within [base, base + 255], in
\* any order
SequenceNumberSetInit ==
    /\ sns_base \in 1 .. MaxBase
    /\ \E n \in 0 .. MaxSetLen :
           sns_input \in [1 .. n -> {sns_base + d : d \in SequenceNumberDeltas}]
    /\ sequence_number_set = [tag |-> "none"]
    /\ sns_result = [op |-> "none", value |-> <<>>]

sequence_number_set_new ==
    /\ sequence_number_set.tag = "none"
    /\ sequence_number_set' =
           SequenceNumberSetUdpNew([high |-> 0, low |-> sns_base], sns_input,
               [tag |-> "some", base |-> [high |-> 0, low |-> sns_base],
                num_bits |-> 0, bitmap |-> [i \in 1 .. 8 |-> {}]])
    /\ UNCHANGED <<sns_base, sns_input, sns_result>>
    /\ SequenceNumberSetFrame

sequence_number_set_base ==
    /\ sequence_number_set.tag = "some"
    /\ sns_result' = [op |-> "base", value |-> <<sequence_number_set.base.low>>]
    /\ UNCHANGED <<sns_base, sns_input, sequence_number_set>>
    /\ SequenceNumberSetFrame

sequence_number_set_set ==
    /\ sequence_number_set.tag = "some"
    /\ sns_result' = [op |-> "set", value |-> SequenceNumberSetUdpSet(sequence_number_set)]
    /\ UNCHANGED <<sns_base, sns_input, sequence_number_set>>
    /\ SequenceNumberSetFrame

sequence_number_set_len ==
    /\ sequence_number_set.tag = "some"
    /\ sns_result' = [op |-> "len", value |-> <<SequenceNumberSetUdpLen(sequence_number_set)>>]
    /\ UNCHANGED <<sns_base, sns_input, sequence_number_set>>
    /\ SequenceNumberSetFrame

SequenceNumberSetNext ==
    \/ sequence_number_set_new
    \/ sequence_number_set_base
    \/ sequence_number_set_set
    \/ sequence_number_set_len

(***************************************************************************)
(* The read/write locks of DomainParticipantImpl.  A call is the sequence  *)
(* of its lock steps: a guard is taken where the code calls read_lock() or *)
(* write_lock() and released where the guard is dropped (a temporary at    *)
(* the end of its statement, the temporary of an `if let` or `for` head at *)
(* the end of that block, the temporary of an `if` condition before the    *)
(* block).  Entity lists hold one entity.                                  *)
(***************************************************************************)
\* the threads of the model: any two of the threads that call into the
\* participant (threads of the application, the metatraffic and user-data
\* receive threads of DcpsService), and the thread of the lease timers
LockThreads == {"t1", "t2", "timer"}

ReadLock(l) == <<[step |-> "lock", lock |-> l, mode |-> "read"]>>
WriteLock(l) == <<[step |-> "lock", lock |-> l, mode |-> "write"]>>
Drop(l) == <<[step |-> "drop", lock |-> l]>>

\* ignore_publication
IgnorePublicationLocks ==
    { WriteLock("ignored_publications") \o Drop("ignored_publications")
      \o ReadLock("user_defined_subscriber_list")
      \o WriteLock("status_listener") \o Drop("status_listener")
      \o Drop("user_defined_subscriber_list") }

\* ignore_subscription
IgnoreSubscriptionLocks ==
    { WriteLock("ignored_subcriptions") \o Drop("ignored_subcriptions")
      \o ReadLock("user_defined_publisher_list")
      \o WriteLock("status_listener") \o Drop("status_listener")
      \o Drop("user_defined_publisher_list") }

\* create_topic with QosKind::Specific: participant disabled, or enabled
CreateTopicLocks ==
    { ReadLock("enabled") \o Drop("enabled")
      \o WriteLock("topic_list") \o Drop("topic_list"),
      ReadLock("enabled") \o ReadLock("qos") \o Drop("qos") \o Drop("enabled")
      \o WriteLock("topic_list") \o Drop("topic_list") }

\* find_topic, one turn of its loop written with an else between the two
\* `if let`: the guard of topic_list lives to the end of the else block
FindTopicElseLocks ==
    { ReadLock("topic_list") \o Drop("topic_list") }
    \cup { ReadLock("topic_list") \o ReadLock("discovered_topic_list")
           \o Drop("discovered_topic_list") \o Drop("topic_list") }
    \cup { ReadLock("topic_list") \o ReadLock("discovered_topic_list") \o locks
           \o Drop("discovered_topic_list") \o Drop("topic_list") :
               locks \in CreateTopicLocks }

\* find_topic, one turn of its loop: the topic is found locally, or it is
\* not discovered either, or it is discovered and created
FindTopicLocks ==
    { ReadLock("topic_list") \o Drop("topic_list") }
    \cup { ReadLock("topic_list") \o Drop("topic_list")
           \o ReadLock("discovered_topic_list") \o Drop("discovered_topic_list") }
    \cup { ReadLock("topic_list") \o Drop("topic_list")
           \o ReadLock("discovered_topic_list") \o locks
           \o Drop("discovered_topic_list") : locks \in CreateTopicLocks }

\* delete_publisher: the publisher is found and has no data writer
DeletePublisherLocks ==
    { ReadLock("user_defined_publisher_list") \o Drop("user_defined_publisher_list")
      \o WriteLock("user_defined_publisher_list") \o Drop("user_defined_publisher_list") }

\* add_discovered_participant of a participant that is not ignored
AddDiscoveredParticipantLocks ==
    { ReadLock("ignored_participants") \o Drop("ignored_participants")
      \o WriteLock("timer") \o Drop("timer")
      \o WriteLock("discovered_participant_list") \o Drop("discovered_participant_list") }

\* remove_discovered_participant, run from the lease timer: the guard of the
\* `if let` head lives over the six remove_matched_participant calls
RemoveDiscoveredParticipantLocks ==
    { WriteLock("discovered_participant_list") \o Drop("discovered_participant_list") }

\* discover_matched_readers over one sample: ALIVE, or NOT_ALIVE_DISPOSED
DiscoverMatchedReadersLocks ==
    { ReadLock("ignored_subcriptions") \o Drop("ignored_subcriptions")
      \o ReadLock("discovered_participant_list")
      \o ReadLock("user_defined_publisher_list")
      \o WriteLock("status_listener") \o Drop("status_listener")
      \o Drop("user_defined_publisher_list")
      \o Drop("discovered_participant_list"),
      ReadLock("user_defined_publisher_list")
      \o WriteLock("status_listener") \o Drop("status_listener")
      \o Drop("user_defined_publisher_list") }

\* discover_matched_writers over one sample: ALIVE, or NOT_ALIVE_DISPOSED
DiscoverMatchedWritersLocks ==
    { ReadLock("ignored_publications") \o Drop("ignored_publications")
      \o ReadLock("discovered_participant_list")
      \o ReadLock("user_defined_subscriber_list")
      \o WriteLock("status_listener") \o Drop("status_listener")
      \o Drop("user_defined_subscriber_list")
      \o Drop("discovered_participant_list"),
      ReadLock("user_defined_subscriber_list")
      \o WriteLock("status_listener") \o Drop("status_listener")
      \o Drop("user_defined_subscriber_list") }

\* discover_matched_topics over one sample
DiscoverMatchedTopicsLocks ==
    { ReadLock("topic_list")
      \o WriteLock("status_listener") \o Drop("status_listener")
      \o Drop("topic_list")
      \o WriteLock("discovered_topic_list") \o Drop("discovered_topic_list") }

\* receive_built_in_data: process_message under the listener guard, then the
\* discover_matched_* calls, which find no sample or one in all
ReceiveBuiltInDataLocks ==
    { WriteLock("status_listener") \o Drop("status_listener") \o locks :
        locks \in {<<>>} \cup AddDiscoveredParticipantLocks \cup DiscoverMatchedReadersLocks
                   \cup DiscoverMatchedWritersLocks \cup DiscoverMatchedTopicsLocks }

\* receive_user_defined_data with the listener guard taken before the two
\* entity lists
ReceiveUserDefinedDataListenerFirstLocks ==
    { WriteLock("status_listener")
      \o ReadLock("user_defined_publisher_list")
      \o ReadLock("user_defined_subscriber_list")
      \o Drop("user_defined_subscriber_list")
      \o Drop("user_defined_publisher_list")
      \o Drop("status_listener") }

\* receive_user_defined_data: the three guards are temporaries of the call's
\* arguments, taken in argument order and dropped when the call returns
ReceiveUserDefinedDataLocks ==
    { ReadLock("user_defined_publisher_list")
      \o ReadLock("user_defined_subscriber_list")
      \o WriteLock("status_listener")
      \o Drop("status_listener")
      \o Drop("user_defined_subscriber_list")
      \o Drop("user_defined_publisher_list") }

\* the calls a thread makes
ParticipantCalls(t) ==
    IF t = "timer" THEN RemoveDiscoveredParticipantLocks
    ELSE IgnorePublicationLocks \cup IgnoreSubscriptionLocks \cup CreateTopicLocks
         \cup FindTopicLocks \cup DeletePublisherLocks
         \cup ReceiveBuiltInDataLocks \cup ReceiveUserDefinedDataLocks

\* a read/write lock grants a read guard while no thread holds a write guard
\* of it, and a write guard while no thread holds any guard of it
CanLock(l, mode) ==
    \A t \in LockThreads : \A i \in 1 .. Len(lock_held[t]) :
        lock_held[t][i].lock = l =>
            (mode = "read" /\ lock_held[t][i].mode = "read")

LocksInit ==
    /\ lock_program = [t \in LockThreads |-> <<>>]
    /\ lock_held = [t \in LockThreads |-> <<>>]

\* a thread enters a call
lock_call(t) ==
    /\ lock_program[t] = <<>>
    /\ \E program \in ParticipantCalls(t) : lock_program' = [lock_program EXCEPT ![t] = program]
    /\ UNCHANGED lock_held
    /\ LocksFrame

\* read_lock() / write_lock() returns its guard
lock_acquire(t) ==
    /\ lock_program[t] # <<>>
    /\ Head(lock_program[t]).step = "lock"
    /\ CanLock(Head(lock_program[t]).lock, Head(lock_program[t]).mode)
    /\ lock_held' = [lock_held EXCEPT ![t] =
           Append(@, [lock |-> Head(lock_program[t]).lock, mode |-> Head(lock_program[t]).mode])]
    /\ lock_program' = [lock_program EXCEPT ![t] = Tail(@)]
    /\ LocksFrame

\* a guard is dropped: the last one the thread took of that lock
lock_drop(t) ==
    /\ lock_program[t] # <<>>
    /\ Head(lock_program[t]).step = "drop"
    /\ LET held == lock_held[t]
           last == CHOOSE i \in 1 .. Len(held) :
                       /\ held[i].lock = Head(lock_program[t]).lock
                       /\ \A j \in i + 1 .. Len(held) : held[j].lock # held[i].lock
       IN  lock_held' = [lock_held EXCEPT ![t] =
               SubSeq(held, 1, last - 1) \o SubSeq(held, last + 1, Len(held))]
    /\ lock_program' = [lock_program EXCEPT ![t] = Tail(@)]
    /\ LocksFrame

LocksNext ==
    \E t \in LockThreads :
        \/ lock_call(t)
        \/ lock_acquire(t)
        \/ lock_drop(t)

(***************************************************************************)
(* DomainParticipantImpl::delete_publisher by its two lock acquisitions,   *)
(* with another thread of the application creating entities meanwhile.     *)
(***************************************************************************)
DeletePublisherCallInit == delete_publisher_call = [pc |-> "idle", handle |-> <<>>]

\* delete_publisher, first statement: under the read guard of the list, find
\* the publisher and count its data writers; the guard is dropped with the `if`
delete_publisher_check ==
    \E target \in 0 .. Len(user_defined_publisher_list) :
        LET a_publisher_handle ==
                IF target = 0 THEN ForeignPublisherHandle
                ELSE InstanceHandle(user_defined_publisher_list[target].guid)
            HasHandle(x) == InstanceHandle(x.guid) = a_publisher_handle
            found == FirstPosition(user_defined_publisher_list, HasHandle)
        IN
        /\ delete_publisher_call.pc = "idle"
        /\ IF found = 0 \/ Len(user_defined_publisher_list[IF found = 0 THEN 1 ELSE found].data_writer_list) > 0
           THEN /\ ep_result' = Result("delete_publisher", "PreconditionNotMet", 0, target)
                /\ UNCHANGED delete_publisher_call
           ELSE /\ delete_publisher_call' = [pc |-> "retain", handle |-> <<a_publisher_handle>>]
                /\ UNCHANGED ep_result
        /\ UNCHANGED <<dp_enabled, dp_autoenable, user_defined_publisher_counter,
                       user_defined_publisher_list, user_defined_subscriber_counter,
                       user_defined_subscriber_list, user_defined_topic_counter, topic_list>>
        /\ DeletePublisherCallFrame

\* delete_publisher, second statement: under the write guard of the list,
\* retain the publishers with another handle
delete_publisher_retain ==
    /\ delete_publisher_call.pc = "retain"
    /\ user_defined_publisher_list' =
           SelectSeq(user_defined_publisher_list,
                     LAMBDA x : InstanceHandle(x.guid) # delete_publisher_call.handle[1])
    /\ ep_result' = Result("delete_publisher", "Ok", 0, 0)
    /\ delete_publisher_call' = [pc |-> "idle", handle |-> <<>>]
    /\ UNCHANGED <<dp_enabled, dp_autoenable, user_defined_publisher_counter,
                   user_defined_subscriber_counter, user_defined_subscriber_list,
                   user_defined_topic_counter, topic_list>>
    /\ DeletePublisherCallFrame

DeletePublisherCallNext ==
    \/ create_publisher
    \/ create_datawriter
    \/ delete_datawriter
    \/ delete_publisher_check
    \/ delete_publisher_retain

(***************************************************************************)
(* Specifications.                                                         *)
(***************************************************************************)
\* The parts do not interact: a specification explores one part and holds the
\* others in one of their initial states.
WriterIdle == WriterInit
BestEffortIdle == sr_reliability_level = "BestEffort" /\ BestEffortInit
ReaderIdle == dr_history = [kind |-> "KeepAll", depth |-> 0] /\ dr_listener = FALSE /\ ReaderInit
DiscoveryIdle == timer_periodic = FALSE /\ DiscoveryInit
EntitiesIdle == dp_autoenable = TRUE /\ EntitiesInit
TasksIdle == TasksInit
FindTopicIdle == FindTopicInit
StatusIdle == StatusInit
ProxyIdle == reliability = "Reliable" /\ ProxyInit
CodecIdle == codec_value = [tag |-> "info_dst", guid_prefix |-> [i \in 1 .. 12 |-> 0]] /\ CodecInit
ActorIdle == ActorInit
ReceiverIdle == rtps_message = <<[kind |-> "Heartbeat"]>> /\ MessageReceiverInit
SequenceNumberSetIdle == sns_base = 1 /\ sns_input = <<>> /\ SequenceNumberSetInit
LocksIdle == LocksInit
DeletePublisherCallIdle == DeletePublisherCallInit
ReturnedStatusIdle == returned_total_count_change = 0
ReaderCallIdle == dr_call = [max_samples |-> 0, sample_states |-> {}]

InitWriter == WriterInit /\ BestEffortIdle /\ ReaderIdle /\ DiscoveryIdle /\ EntitiesIdle /\ TasksIdle /\ FindTopicIdle /\ StatusIdle /\ ProxyIdle /\ CodecIdle /\ ActorIdle /\ ReceiverIdle /\ SequenceNumberSetIdle /\ LocksIdle /\ DeletePublisherCallIdle /\ ReturnedStatusIdle /\ ReaderCallIdle
InitBestEffort == WriterIdle /\ BestEffortInit /\ ReaderIdle /\ DiscoveryIdle /\ EntitiesIdle /\ TasksIdle /\ FindTopicIdle /\ StatusIdle /\ ProxyIdle /\ CodecIdle /\ ActorIdle /\ ReceiverIdle /\ SequenceNumberSetIdle /\ LocksIdle /\ DeletePublisherCallIdle /\ ReturnedStatusIdle /\ ReaderCallIdle
InitReader == WriterIdle /\ BestEffortIdle /\ ReaderInit /\ DiscoveryIdle /\ EntitiesIdle /\ TasksIdle /\ FindTopicIdle /\ StatusIdle /\ ProxyIdle /\ CodecIdle /\ ActorIdle /\ ReceiverIdle /\ SequenceNumberSetIdle /\ LocksIdle /\ DeletePublisherCallIdle /\ ReturnedStatusIdle /\ ReaderCallIdle
InitDiscovery == WriterIdle /\ BestEffortIdle /\ ReaderIdle /\ DiscoveryInit /\ EntitiesIdle /\ TasksIdle /\ FindTopicIdle /\ StatusIdle /\ ProxyIdle /\ CodecIdle /\ ActorIdle /\ ReceiverIdle /\ SequenceNumberSetIdle /\ LocksIdle /\ DeletePublisherCallIdle /\ ReturnedStatusIdle /\ ReaderCallIdle
InitEntities == WriterIdle /\ BestEffortIdle /\ ReaderIdle /\ DiscoveryIdle /\ EntitiesInit /\ TasksIdle /\ FindTopicIdle /\ StatusIdle /\ ProxyIdle /\ CodecIdle /\ ActorIdle /\ ReceiverIdle /\ SequenceNumberSetIdle /\ LocksIdle /\ DeletePublisherCallIdle /\ ReturnedStatusIdle /\ ReaderCallIdle
InitEntityIds == WriterIdle /\ BestEffortIdle /\ ReaderIdle /\ DiscoveryIdle /\ EntitiesIdle /\ TasksIdle /\ FindTopicIdle /\ StatusIdle /\ ProxyIdle /\ CodecIdle /\ ActorIdle /\ ReceiverIdle /\ SequenceNumberSetIdle /\ LocksIdle /\ DeletePublisherCallIdle /\ ReturnedStatusIdle /\ ReaderCallIdle
InitTasks == WriterIdle /\ BestEffortIdle /\ ReaderIdle /\ DiscoveryIdle /\ EntitiesIdle /\ TasksInit /\ FindTopicIdle /\ StatusIdle /\ ProxyIdle /\ CodecIdle /\ ActorIdle /\ ReceiverIdle /\ SequenceNumberSetIdle /\ LocksIdle /\ DeletePublisherCallIdle /\ ReturnedStatusIdle /\ ReaderCallIdle
InitFindTopic == WriterIdle /\ BestEffortIdle /\ ReaderIdle /\ DiscoveryIdle /\ EntitiesIdle /\ TasksIdle /\ FindTopicInit /\ StatusIdle /\ ProxyIdle /\ CodecIdle /\ ActorIdle /\ ReceiverIdle /\ SequenceNumberSetIdle /\ LocksIdle /\ DeletePublisherCallIdle /\ ReturnedStatusIdle /\ ReaderCallIdle
InitStatus == WriterIdle /\ BestEffortIdle /\ ReaderIdle /\ DiscoveryIdle /\ EntitiesIdle /\ TasksIdle /\ FindTopicIdle /\ StatusInit /\ ProxyIdle /\ CodecIdle /\ ActorIdle /\ ReceiverIdle /\ SequenceNumberSetIdle /\ LocksIdle /\ DeletePublisherCallIdle /\ ReturnedStatusIdle /\ ReaderCallIdle
InitProxy == WriterIdle /\ BestEffortIdle /\ ReaderIdle /\ DiscoveryIdle /\ EntitiesIdle /\ TasksIdle /\ FindTopicIdle /\ StatusIdle /\ ProxyInit /\ CodecIdle /\ ActorIdle /\ ReceiverIdle /\ SequenceNumberSetIdle /\ LocksIdle /\ DeletePublisherCallIdle /\ ReturnedStatusIdle /\ ReaderCallIdle
InitReliableProxy == WriterIdle /\ BestEffortIdle /\ ReaderIdle /\ DiscoveryIdle /\ EntitiesIdle /\ TasksIdle /\ FindTopicIdle /\ StatusIdle /\ ProxyIdle /\ CodecIdle /\ ActorIdle /\ ReceiverIdle /\ SequenceNumberSetIdle /\ LocksIdle /\ DeletePublisherCallIdle /\ ReturnedStatusIdle /\ ReaderCallIdle
InitCodec == WriterIdle /\ BestEffortIdle /\ ReaderIdle /\ DiscoveryIdle /\ EntitiesIdle /\ TasksIdle /\ FindTopicIdle /\ StatusIdle /\ ProxyIdle /\ CodecInit /\ ActorIdle /\ ReceiverIdle /\ SequenceNumberSetIdle /\ LocksIdle /\ DeletePublisherCallIdle /\ ReturnedStatusIdle /\ ReaderCallIdle
InitActor == WriterIdle /\ BestEffortIdle /\ ReaderIdle /\ DiscoveryIdle /\ EntitiesIdle /\ TasksIdle /\ FindTopicIdle /\ StatusIdle /\ ProxyIdle /\ CodecIdle /\ ActorInit /\ ReceiverIdle /\ SequenceNumberSetIdle /\ LocksIdle /\ DeletePublisherCallIdle /\ ReturnedStatusIdle /\ ReaderCallIdle
InitReceiver == WriterIdle /\ BestEffortIdle /\ ReaderIdle /\ DiscoveryIdle /\ EntitiesIdle /\ TasksIdle /\ FindTopicIdle /\ StatusIdle /\ ProxyIdle /\ CodecIdle /\ ActorIdle /\ MessageReceiverInit /\ SequenceNumberSetIdle /\ LocksIdle /\ DeletePublisherCallIdle /\ ReturnedStatusIdle /\ ReaderCallIdle
InitSequenceNumberSet == WriterIdle /\ BestEffortIdle /\ ReaderIdle /\ DiscoveryIdle /\ EntitiesIdle /\ TasksIdle /\ FindTopicIdle /\ StatusIdle /\ ProxyIdle /\ CodecIdle /\ ActorIdle /\ ReceiverIdle /\ SequenceNumberSetInit /\ LocksIdle /\ DeletePublisherCallIdle /\ ReturnedStatusIdle /\ ReaderCallIdle
InitLocks == WriterIdle /\ BestEffortIdle /\ ReaderIdle /\ DiscoveryIdle /\ EntitiesIdle /\ TasksIdle /\ FindTopicIdle /\ StatusIdle /\ ProxyIdle /\ CodecIdle /\ ActorIdle /\ ReceiverIdle /\ SequenceNumberSetIdle /\ LocksInit /\ DeletePublisherCallIdle /\ ReturnedStatusIdle /\ ReaderCallIdle

SpecWriter == InitWriter /\ [][WriterNext]_vars

SpecBestEffort == InitBestEffort /\ [][BestEffortNext]_vars

SpecReader == InitReader /\ [][ReaderNext]_vars

SpecDiscovery == InitDiscovery /\ [][DiscoveryNext]_vars

SpecLease == InitDiscovery /\ [][LeaseNext]_vars

SpecEntities == InitEntities /\ [][EntitiesNext]_vars

SpecEntityIds == InitEntityIds /\ [][EntityIdsNext]_vars

SpecTasks == InitTasks /\ [][TasksNext]_vars

SpecTasksFair == InitTasks /\ [][TasksNext]_vars /\ TasksFairness

SpecFindTopic == InitFindTopic /\ [][FindTopicNext]_vars

SpecStatus == InitStatus /\ [][StatusNext]_vars

SpecProxySend == InitProxy /\ [][ProxySendNext]_vars
SpecProxyAcked == InitProxy /\ [][ProxyAckedNext]_vars
SpecProxyAckNack == InitReliableProxy /\ [][ProxyAckNackNext]_vars

SpecCodec == InitCodec /\ [][CodecNext]_vars
SpecCodecReceive == InitCodec /\ [][CodecReceiveNext]_vars

SpecActor == InitActor /\ [][ActorNext]_vars

SpecReceiver == InitReceiver /\ [][ReceiverNext]_vars

SpecSequenceNumberSet == InitSequenceNumberSet /\ [][SequenceNumberSetNext]_vars

SpecLocks == InitLocks /\ [][LocksNext]_vars

SpecDeletePublisher == InitEntities /\ [][DeletePublisherCallNext]_vars

SpecReaderCalls == InitReader /\ [][ReaderCallsNext]_vars

(***************************************************************************)
(* C1: the n-th call to new_change returns sequence number n, so           *)
(* last_change_sequence_number starts at 0, equals the number of calls     *)
(* made, and the returned numbers are strictly increasing, whatever        *)
(* matched_reader_add / matched_reader_remove calls are interleaved.       *)
(***************************************************************************)
C1_NthChangeHasSequenceNumberN ==
    /\ \A n \in DOMAIN returned_changes : returned_changes[n] = n
    /\ last_change_sequence_number = Len(returned_changes)

\* the last explored call has returned, with readers matched in between
C1_Witness ==
    /\ Len(returned_changes) = MaxChanges
    /\ returned_changes[MaxChanges] = MaxChanges
    /\ matched_readers # <<>>

(***************************************************************************)
(* C2: every Heartbeat emitted to a reader GUID carries a count strictly   *)
(* greater than the count of every Heartbeat emitted to that reader        *)
(* before, also across unmatching and re-matching of the reader.           *)
(***************************************************************************)
C2_HeartbeatCountStrictlyIncreasing ==
    \A i, j \in DOMAIN sent_heartbeats :
        (i < j /\ sent_heartbeats[i][1] = sent_heartbeats[j][1])
            => sent_heartbeats[i][2] < sent_heartbeats[j][2]

(***************************************************************************)
(* The exchange of the best-effort tests, as state predicates.             *)
(***************************************************************************)
BestEffortPair == sr_reliability_level = "BestEffort"

\* writer.run() has covered every allocated sequence number, and every change
\* of the writer cache was in the cache when run() reached its number
WriterHasRun ==
    /\ rp_highest_sent = sw_last_change_sequence_number
    /\ \A sn \in sw_writer_cache : DataMessage(sn) \in Range(rp_send_messages)

\* every message writer.run() produced was pushed to the reader, in order,
\* exactly once
DeliveredInOrder == sr_pushed = rp_send_messages

AllProcessed == sr_matched_writers[WriterGuid].queue = <<>>

ReaderCacheEqualsWriterCache ==
    /\ Len(sr_reader_cache) = Cardinality(sw_writer_cache)
    /\ Range(sr_reader_cache) = sw_writer_cache

(***************************************************************************)
(* C3: in every reachable state the reader cache holds at most one change  *)
(* per sequence number of the matched writer, whatever the order,          *)
(* duplication or loss of the messages pushed to the reader.               *)
(***************************************************************************)
C3_AtMostOnePerSequenceNumber ==
    \A i, j \in DOMAIN sr_reader_cache :
        i # j => sr_reader_cache[i] # sr_reader_cache[j]

\* a Data message was pushed twice, both copies were processed by a
\* best-effort proxy, and its change is in the reader cache
C3_Witness ==
    /\ BestEffortPair
    /\ AllProcessed
    /\ \E i, j \in DOMAIN sr_pushed :
          /\ i < j
          /\ sr_pushed[i] = sr_pushed[j]
          /\ sr_pushed[i].kind = "Data"
          /\ sr_pushed[i].sn \in Range(sr_reader_cache)

NeverAdded(k) ==
    /\ k \in 1 .. sw_last_change_sequence_number
    /\ k \notin sw_writer_cache
    /\ \E a, b \in sw_writer_cache : a < k /\ k < b

ReorderedDelivery == sr_pushed = <<DataMessage(3), DataMessage(1), DataMessage(2)>>

C6_OnlyNewerChangesAdded ==
    BestEffortPair =>
        /\ \A i, j \in DOMAIN sr_reader_cache :
              i < j => sr_reader_cache[i] < sr_reader_cache[j]
        /\ \A sn \in Range(sr_reader_cache) :
              sn <= sr_matched_writers[WriterGuid].max_sn
        /\ (ReorderedDelivery /\ AllProcessed) => sr_reader_cache = <<3>>

C6_Witness ==
    /\ BestEffortPair
    /\ ReorderedDelivery
    /\ AllProcessed
    /\ sr_reader_cache = <<3>>

(***************************************************************************)
(* C7: read and take return the samples of one writer in ascending         *)
(* sequence-number order, also when the changes were inserted into the     *)
(* reader cache out of sequence-number order.                              *)
(***************************************************************************)
C7_ReadTakeInSequenceNumberOrder ==
    \A i, j \in DOMAIN dr_result.samples :
        (i < j /\ dr_result.samples[i].writer_guid = dr_result.samples[j].writer_guid)
            => dr_result.samples[i].sn < dr_result.samples[j].sn

(***************************************************************************)
(* C8: when a call of remove_discovered_participant(P) that found P in the *)
(* list returns, and no add_discovered_participant call is in progress, no *)
(* built-in or user-defined endpoint holds a matched proxy with P's prefix. *)
(***************************************************************************)
RemoveCompletes(th, h) ==
    /\ threads[th].pc = "remove_matched_participant"
    /\ threads[th].i = Len(RemoveOrder)
    /\ threads[th].handle = h
    /\ threads'[th].pc = "idle"

C8_RemovePurgesEveryProxy ==
    [][\A th \in {"api", "timer"}, h \in Participants :
          (RemoveCompletes(th, h) /\ threads["spdp"].pc = "idle")
              => /\ \A e \in BuiltinEndpoints : h \notin builtin_matched'[e]
                 /\ \A e \in UserEndpoints : h \notin user_matched'[e]]_vars

(***************************************************************************)
(* C9: a discovered participant does not outlive the lease of its last     *)
(* processed announcement: whenever no call is in progress, a participant  *)
(* in discovered_participant_list is within that lease, under any          *)
(* interleaving of the lease-timer callback with add_discovered_participant.*)
(***************************************************************************)
NoCallInProgress == \A th \in Threads : threads[th].pc = "idle"

C10_IgnoredParticipantStaysRemoved ==
    \A h \in ignore_returned :
        /\ h \notin discovered_participant_list
        /\ \A e \in BuiltinEndpoints : h \notin builtin_matched[e]

(***************************************************************************)
(* C11: delete_publisher called on a publisher of the participant that     *)
(* still owns a data writer returns PreconditionNotMet and leaves the      *)
(* publisher list unchanged; called on one with no data writers it         *)
(* removes exactly that publisher from the list and returns Ok.            *)
(***************************************************************************)
C11_DeletePublisherContract ==
    [][(ep_result'.op = "delete_publisher" /\ ep_result'.index > 0 /\ evars' # evars)
          => LET target == ep_result'.index IN
             IF Len(user_defined_publisher_list[target].data_writer_list) > 0
             THEN /\ ep_result'.status = "PreconditionNotMet"
                  /\ user_defined_publisher_list' = user_defined_publisher_list
             ELSE /\ ep_result'.status = "Ok"
                  /\ user_defined_publisher_list' =
                         RemoveAt(user_defined_publisher_list, target)]_vars

(***************************************************************************)
(* C12: an entity returned by create_publisher, create_subscriber,         *)
(* create_topic or create_datawriter is enabled right after the call if    *)
(* and only if its parent is enabled and the parent's                      *)
(* autoenable_created_entities is set.                                     *)
(***************************************************************************)
C12_EnabledIffParentEnabledAndAutoenable ==
    /\ ep_result.op = "create_publisher"
           => user_defined_publisher_list[ep_result.index].enabled
                  = (dp_enabled /\ dp_autoenable)
    /\ ep_result.op = "create_subscriber"
           => user_defined_subscriber_list[ep_result.index].enabled
                  = (dp_enabled /\ dp_autoenable)
    /\ ep_result.op = "create_topic"
           => topic_list[ep_result.index].enabled = (dp_enabled /\ dp_autoenable)
    /\ (ep_result.op = "create_datawriter" /\ ep_result.status = "Ok")
           => LET publisher == user_defined_publisher_list[ep_result.parent] IN
              publisher.data_writer_list[ep_result.index].enabled
                  = (publisher.enabled /\ publisher.autoenable)

C12_Witness ==
    /\ ep_result.op = "create_datawriter"
    /\ ep_result.status = "Ok"
    /\ user_defined_publisher_list[ep_result.parent].data_writer_list[ep_result.index].enabled
    /\ \E i \in DOMAIN user_defined_subscriber_list : ~user_defined_subscriber_list[i].enabled

(***************************************************************************)
(* C16: no two entities of the participant (built-in topics, user-defined  *)
(* publishers, subscribers and topics, data writers) have the same GUID.   *)
(***************************************************************************)
Guids(list) == [i \in DOMAIN list |-> list[i].guid]

RECURSIVE DataWriterGuids(_)
DataWriterGuids(publishers) ==
    IF publishers = <<>> THEN <<>>
    ELSE Guids(Head(publishers).data_writer_list) \o DataWriterGuids(Tail(publishers))

EntityGuids ==
    Guids(BuiltinTopics) \o Guids(user_defined_publisher_list)
        \o Guids(user_defined_subscriber_list) \o Guids(topic_list)
        \o DataWriterGuids(user_defined_publisher_list)

C16_EntityGuidsDistinct ==
    \A i, j \in DOMAIN EntityGuids : i # j => EntityGuids[i] # EntityGuids[j]

(***************************************************************************)
(* C13: once shutdown_tasks has set the flag, every task sees it at the    *)
(* top of its loop and exits, and shutdown_tasks joins all of them and     *)
(* returns with an empty thread list (sleeps, timed waits and reads        *)
(* return).                                                                *)
(***************************************************************************)
ShutdownReturned ==
    /\ shutdown_pc = "returned"
    /\ service_threads = <<>>
    /\ \A t \in Tasks : task_pc[t] = "done"

C14_NoEmissionAfterShutdown ==
    [][\A t \in PeriodicTasks : PeriodicTaskEmit(t) => ~quit]_vars

(***************************************************************************)
(* C15: find_topic returns the topic when it exists locally or has been    *)
(* discovered; it returns Err(Timeout) only otherwise, and not before the  *)
(* timeout has elapsed since the call.                                     *)
(***************************************************************************)
C15_FindTopicContract ==
    find_pc = "returned" =>
        /\ find_result.status = "Ok" => LocalTopic(find_result.name)
        /\ find_result.status = "Timeout" =>
               /\ ~find_existed_at_call
               /\ find_result.time - find_start_time >= find_timeout

(***************************************************************************)
(* C17: a requested-deadline miss adds exactly 1 to total_count and to     *)
(* total_count_change; get_requested_deadline_missed_status returns the    *)
(* status, the total_count_change it returns being the one it sets to 0;   *)
(* total_count never decreases.                                            *)
(***************************************************************************)
C17_RequestedDeadlineMissedStatus ==
    [][/\ requested_deadline_missed_status'.total_count
              >= requested_deadline_missed_status.total_count
       /\ (deadline_pc = "idle" /\ deadline_pc' = "total_count_change")
              => requested_deadline_missed_status'.total_count
                     = requested_deadline_missed_status.total_count + 1
       /\ (deadline_pc = "total_count_change" /\ deadline_pc' = "status_change")
              => requested_deadline_missed_status'.total_count_change
                     = requested_deadline_missed_status.total_count_change + 1
       /\ (get_status_pc = "reset" /\ get_status_pc' = "idle")
              => /\ get_status_result'.total_count_change
                        = requested_deadline_missed_status.total_count_change
                 /\ get_status_result'.total_count
                        <= requested_deadline_missed_status.total_count
                 /\ requested_deadline_missed_status'.total_count_change = 0
      ]_vars

(***************************************************************************)
(* C18: receiving data sets DATA_AVAILABLE and a missed deadline sets      *)
(* REQUESTED_DEADLINE_MISSED in the status changes; with a listener        *)
(* installed the event calls the listener exactly once and leaves the bit  *)
(* clear, without one the bit stays set and no listener is called.         *)
(***************************************************************************)
DataReceived == dr_received' # dr_received

DeadlineMissedDispatched == deadline_pc = "listener" /\ deadline_pc' = "idle"

C18_StatusBitAndListener ==
    [][/\ DataReceived =>
              IF dr_listener
              THEN /\ on_data_available_calls' = on_data_available_calls + 1
                   /\ "DATA_AVAILABLE" \notin dr_status_change'
              ELSE /\ on_data_available_calls' = on_data_available_calls
                   /\ "DATA_AVAILABLE" \in dr_status_change'
       /\ ~DataReceived => on_data_available_calls' = on_data_available_calls
       /\ (deadline_pc = "status_change" /\ deadline_pc' = "listener")
              => "REQUESTED_DEADLINE_MISSED" \in dr_status_change'
       /\ DeadlineMissedDispatched =>
              IF dr_listener
              THEN /\ on_requested_deadline_missed_calls'
                          = on_requested_deadline_missed_calls + 1
                   /\ "REQUESTED_DEADLINE_MISSED" \notin dr_status_change'
              ELSE /\ on_requested_deadline_missed_calls'
                          = on_requested_deadline_missed_calls
                   /\ "REQUESTED_DEADLINE_MISSED" \in dr_status_change'
       /\ ~DeadlineMissedDispatched =>
              on_requested_deadline_missed_calls' = on_requested_deadline_missed_calls
      ]_vars

C18_Witness ==
    /\ on_data_available_calls >= 1
    /\ on_requested_deadline_missed_calls >= 1
    /\ requested_deadline_missed_status.total_count >= 2
    /\ deadline_pc = "idle"
    /\ dr_status_change = {"REQUESTED_DEADLINE_MISSED"}

(***************************************************************************)
(* C19: with KEEP_LAST(depth), on_data_received with n > depth changes in  *)
(* the reader cache removes exactly the n - depth changes with the lowest  *)
(* sequence numbers and keeps the depth highest; with n <= depth, or with  *)
(* KEEP_ALL, it removes nothing.                                           *)
(***************************************************************************)
C19_KeepLastRemovesLowest ==
    [][DataReceived =>
          LET change == CHOOSE c \in dr_received' \ dr_received : TRUE
              added  == Append(dr_changes, change)
          IN IF dr_history.kind = "KeepLast" /\ Len(added) > dr_history.depth
             THEN /\ Len(dr_changes') = dr_history.depth
                  /\ Range(dr_changes') \subseteq Range(added)
                  /\ \A i \in DOMAIN added, j \in DOMAIN dr_changes' :
                         added[i] \notin Range(dr_changes')
                             => added[i].sequence_number <= dr_changes'[j].sequence_number
             ELSE dr_changes' = added
      ]_vars

(***************************************************************************)
(* C20: a sample that read returned is READ for every later read, so       *)
(* reads restricted to NOT_READ return a sample at most once; a read that  *)
(* selects no sample returns Err(NoData).                                  *)
(***************************************************************************)
C20_ReadMarksSamplesRead ==
    [][/\ dr_samples_read \subseteq dr_samples_read'
       /\ dr_result'.op = "read" =>
              /\ \A i \in DOMAIN dr_result'.samples :
                     dr_result'.samples[i].sn \in dr_samples_read'
              /\ (dr_result'.samples = <<>>) <=> (dr_result'.status = "NoData")
       /\ (dr_result'.op = "read" /\ dr_result' # dr_result) =>
              \A i \in DOMAIN dr_result'.samples :
                  dr_result'.samples[i].sn \in dr_samples_read
                      => dr_result'.samples[i].sample_state = "READ"
      ]_vars

C20_Witness ==
    /\ dr_result.op = "read"
    /\ dr_result.status = "Ok"
    /\ \E i, j \in DOMAIN dr_result.samples :
           /\ dr_result.samples[i].sample_state = "READ"
           /\ dr_result.samples[j].sample_state = "NOT_READ"

\* C21: a call of is_acked_by_all returns true exactly when the matched
\* reliable reader proxy has acknowledged every sequence number of the
\* writer's changes, and false otherwise
C21_IsAckedByAll ==
    [][(proxy_result'.op = "is_acked_by_all" /\ UNCHANGED change_list) =>
           proxy_result'.flag =
               Bool(reliability = "Reliable" =>
                        \A sn \in change_list : highest_acked_seq_num >= sn)]_vars

\* C24 as stated: a call of next_unsent_change returns the lowest change above
\* highest_sent_seq_num that is not below first_relevant_sample_seq_num, none
\* when there is no such change
C24_NextUnsentChangeRelevant ==
    [][LET unsent == {sn \in change_list : /\ sn > highest_sent_seq_num
                                           /\ sn >= first_relevant_sample_seq_num} IN
       (proxy_result'.op = "next_unsent_change" /\ UNCHANGED change_list) =>
           /\ proxy_result'.value = None <=> unsent = {}
           /\ proxy_result'.value # None =>
                  /\ proxy_result'.value[1] \in unsent
                  /\ \A sn \in unsent : proxy_result'.value[1] <= sn]_vars

\* C24 amended: a call of next_unsent_change returns the lowest change above
\* highest_sent_seq_num whatever first_relevant_sample_seq_num is, none when
\* there is no such change, and unsent_changes tells whether there is one
C24_NextUnsentChange ==
    [][LET unsent == {sn \in change_list : sn > highest_sent_seq_num} IN
       /\ (proxy_result'.op = "next_unsent_change" /\ UNCHANGED change_list) =>
              /\ proxy_result'.value = None <=> unsent = {}
              /\ proxy_result'.value # None =>
                     /\ proxy_result'.value[1] \in unsent
                     /\ \A sn \in unsent : proxy_result'.value[1] <= sn
       /\ (proxy_result'.op = "unsent_changes" /\ UNCHANGED change_list) =>
              proxy_result'.flag = Bool(unsent # {})]_vars

C24_Witness ==
    /\ proxy_result.op = "next_unsent_change"
    /\ proxy_result.value = Some(2)
    /\ change_list = {1, 2, 3}
    /\ highest_sent_seq_num = 1
    /\ first_relevant_sample_seq_num = 3

\* C25: highest_acked_seq_num never decreases, and acknowledging a number
\* (base - 1 of an accepted AckNack) leaves it at the larger of the two
C25_HighestAckedNeverDecreases ==
    [][/\ highest_acked_seq_num' >= highest_acked_seq_num
       /\ proxy_result'.op = "acked_changes_set" =>
              /\ highest_acked_seq_num' >= proxy_result'.value[1]
              /\ highest_acked_seq_num' \in {highest_acked_seq_num, proxy_result'.value[1]}
       /\ (proxy_result'.op = "on_acknack_submessage_received"
              /\ proxy_result'.flag = "accepted") =>
              /\ highest_acked_seq_num' >= proxy_result'.value[2] - 1
              /\ highest_acked_seq_num' \in {highest_acked_seq_num,
                                             proxy_result'.value[2] - 1}]_vars

C25_Witness ==
    /\ proxy_result.op = "on_acknack_submessage_received"
    /\ proxy_result.flag = "accepted"
    /\ proxy_result.value[2] - 1 < highest_acked_seq_num
    /\ last_received_acknack_count = 2

\* C26: an AckNack whose count is not above last_received_acknack_count
\* changes none of highest_acked_seq_num, requested_changes and
\* last_received_acknack_count
C26_StaleAckNackDiscarded ==
    [][(/\ proxy_result'.op = "on_acknack_submessage_received"
        /\ proxy_result'.value[1] <= last_received_acknack_count) =>
           UNCHANGED <<highest_acked_seq_num, requested_changes,
                       last_received_acknack_count>>]_vars

C26_Witness ==
    /\ proxy_result.op = "on_acknack_submessage_received"
    /\ proxy_result.flag = "discarded"
    /\ proxy_result.value[1] = last_received_acknack_count
    /\ proxy_result.value[2] - 1 > highest_acked_seq_num

\* C27: a requested number is held once, and the calls of
\* next_requested_change since the last request returned ascending numbers,
\* each removed from the pending ones and below all that remain, and none
\* only when nothing was pending
C27_RequestedChangesAscending ==
    /\ \A i, j \in 1 .. Len(requested_changes) :
           i # j => requested_changes[i] # requested_changes[j]
    /\ \A i, j \in 1 .. Len(drained) : i < j => drained[i] < drained[j]
    /\ \A i \in 1 .. Len(drained) :
           \A sn \in Range(requested_changes) : drained[i] < sn
    /\ proxy_result.op = "next_requested_change" =>
           IF proxy_result.value = None THEN requested_changes = <<>>
           ELSE /\ drained # <<>>
                /\ drained[Len(drained)] = proxy_result.value[1]

C27_Witness ==
    /\ proxy_result.op = "next_requested_change"
    /\ drained = <<1, 3>>
    /\ requested_changes = <<>>

\* C28: after any sequence of matched_reader_add and matched_reader_remove,
\* matched_readers holds at most one proxy for each remote reader GUID
C28_OneProxyPerReader ==
    \A i, j \in 1 .. Len(matched_readers) :
        matched_readers[i].remote_reader_guid = matched_readers[j].remote_reader_guid
            => i = j

C23_AlreadyDeletedOnceDropped ==
    [][\A t \in AddressSenders :
           /\ (~actor_alive /\ send_pc[t] = "idle") => send_pc'[t] = "idle"
           /\ (actor_alive /\ send_pc[t] = "idle") =>
                  send_result'[t] \in {send_result[t], "none"}]_vars

\* C23 amended: a call returns Err(AlreadyDeleted) exactly when, at the call,
\* the Actor and all its clones have been dropped and no call through an
\* address is in progress; any other call goes on to enqueue one message in
\* the mailbox and return Ok
C23_AlreadyDeletedWithoutSenders ==
    [][\A t \in AddressSenders :
           LET deleted == /\ ~actor_alive
                          /\ actor_clones = 0
                          /\ \A u \in AddressSenders : send_pc[u] = "idle" IN
           /\ (send_pc[t] = "idle" /\ deleted) => send_pc'[t] = "idle"
           /\ (send_pc[t] = "idle" /\ ~deleted) =>
                  send_result'[t] \in {send_result[t], "none"}
           /\ (send_pc[t] = "upgraded" /\ send_pc'[t] = "idle") =>
                  /\ send_result'[t] = "Ok"
                  /\ mailbox' = mailbox + 1]_vars

C23_Witness ==
    /\ ~actor_alive
    /\ send_result["a1"] = "AlreadyDeleted"
    /\ send_result["a2"] = "Ok"
    /\ mailbox > 0

\* C29: an INFO_DST is processed without failure and leaves its GUID prefix
\* in dest_guid_prefix, and no DATA is dispatched to a local reader while
\* dest_guid_prefix is not this participant's
C29_InfoDestinationSkips ==
    /\ receiver_pc = "panicked" => Submessage.kind # "InfoDestination"
    /\ \A i \in 1 .. submessage_index - 1 :
           (/\ rtps_message[i].kind = "InfoDestination"
            /\ \A j \in i + 1 .. submessage_index - 1 :
                   rtps_message[j].kind # "InfoDestination") =>
               /\ message_receiver.dest_guid_prefix = rtps_message[i].guid_prefix
               /\ rtps_message[i].guid_prefix # "participant" =>
                      \A j \in i + 1 .. submessage_index - 1 :
                          rtps_message[j].kind # "Data"

\* the state the last INFO_TS processed so far calls for
RECURSIVE TimestampAfter(_)
TimestampAfter(i) ==
    IF i = 0 THEN <<FALSE, TIME_INVALID>>
    ELSE IF rtps_message[i].kind # "InfoTimestamp" THEN TimestampAfter(i - 1)
    ELSE IF rtps_message[i].invalidate_flag THEN <<FALSE, TIME_INVALID>>
    ELSE <<TRUE, rtps_message[i].timestamp>>

\* C30: have_timestamp and timestamp are those of the last INFO_TS processed
\* (false and TIME_INVALID when its invalidate flag is set or there was none),
\* and every DATA dispatched while have_timestamp is true carries the
\* timestamp current at its dispatch
C30_TimestampApplied ==
    /\ <<message_receiver.have_timestamp, message_receiver.timestamp>>
           = TimestampAfter(submessage_index - 1)
    /\ \A i \in 1 .. Len(dispatched) :
           \A j \in 1 .. submessage_index - 1 :
               (/\ rtps_message[j].kind = "Data"
                /\ Cardinality({k \in 1 .. j : rtps_message[k].kind = "Data"})
                       = ((i - 1) \div Len(EntityList)) + 1
                /\ TimestampAfter(j)[1]) =>
                   /\ "timestamp" \in DOMAIN dispatched[i]
                   /\ dispatched[i].timestamp = TimestampAfter(j)[2]

\* C31: the calls of process_data_submessage are, for the Data submessages of
\* the datagram in their order, one call on each element of the list with
\* the source GUID prefix of the header, and no Data submessage of the
\* datagram is left without its calls when process_message ends
C31_DataFanOut ==
    LET data_indexes == {j \in 1 .. submessage_index - 1 : rtps_message[j].kind = "Data"} IN
    /\ Len(dispatched) = Cardinality(data_indexes) * Len(EntityList)
    /\ \A j \in data_indexes, e \in 1 .. Len(EntityList) :
           dispatched[(Cardinality({k \in data_indexes : k < j}) * Len(EntityList)) + e]
               = [element |-> EntityList[e], source_guid_prefix |-> "source",
                  data |-> rtps_message[j]]
    /\ receiver_pc = "panicked" =>
           \A j \in submessage_index .. Len(rtps_message) : rtps_message[j].kind # "Data"

\* C32: parsing the header of a received submessage, whatever its id, is not
\* an error and yields its octets_to_next_header, with which the submessage
\* can be skipped
C32_UnknownSubmessageSkipped ==
    (codec_value.tag = "header" /\ codec_decoded.tag # "none") =>
        /\ codec_decoded.tag # "error"
        /\ codec_decoded.submessage_length = codec_value.submessage_length

\* C33: for a base b and sequence numbers S within [b, b + 255],
\* SequenceNumberSetUdp::new(b, S) has num_bits = max(S) - b + 1 (0 for an
\* empty S), base() returns b, set() returns exactly the elements of S in
\* ascending order, and len() is 12 + 4 * ceil(num_bits / 32)
C33_SequenceNumberSetRoundTrip ==
    LET S == Range(sns_input)
        num_bits == IF S = {} THEN 0
                    ELSE (CHOOSE m \in S : \A x \in S : x <= m) - sns_base + 1
        words == (num_bits \div 32) + (IF num_bits % 32 = 0 THEN 0 ELSE 1)
        v == sns_result.value
    IN  /\ sequence_number_set.tag = "some" => sequence_number_set.num_bits = num_bits
        /\ sns_result.op = "base" => v = <<sns_base>>
        /\ sns_result.op = "set" =>
               /\ Range(v) = S
               /\ \A i \in 1 .. Len(v) - 1 : v[i] < v[i + 1]
        /\ sns_result.op = "len" => v = <<12 + 4 * words>>

C33_Witness ==
    /\ sns_result.op = "set"
    /\ Len(sns_result.value) = 3
    /\ sns_base + 255 \in Range(sns_result.value)
    /\ sns_input[1] > sns_input[2]

\* C34: no thread acquires the status-listener lock while it holds the
\* publisher-list, subscriber-list or topic-list lock: two of the locks qos,
\* status_listener and the entity lists that a thread holds together were
\* taken in the order qos, status_listener, entity list
C34_ListenerBeforeEntityLists ==
    LET rank(l) == CASE l = "qos" -> 1
                     [] l = "status_listener" -> 2
                     [] l \in {"user_defined_publisher_list", "user_defined_subscriber_list",
                               "topic_list"} -> 3
                     [] OTHER -> 0
    IN  \A t \in LockThreads : \A i, j \in 1 .. Len(lock_held[t]) :
            (i < j /\ rank(lock_held[t][i].lock) > 0 /\ rank(lock_held[t][j].lock) > 0)
                => rank(lock_held[t][i].lock) <= rank(lock_held[t][j].lock)

\* C34, amended: the status-listener lock is the last lock a thread takes: no
\* thread acquires a lock of the participant while it holds the status-listener
\* lock, so an entity-list lock held together with it was taken first
C34_ListenerTakenLast ==
    \A t \in LockThreads : \A i \in 1 .. Len(lock_held[t]) - 1 :
        lock_held[t][i].lock # "status_listener"

C34_Witness ==
    \E t \in LockThreads :
        /\ Len(lock_held[t]) = 3
        /\ lock_held[t][1].lock = "user_defined_publisher_list"
        /\ lock_held[t][2].lock = "user_defined_subscriber_list"
        /\ lock_held[t][3].lock = "status_listener"

\* C38: the participant's tasks and API calls never deadlock on the
\* participant's read/write locks: no reachable state has a cycle of threads
\* each waiting for a lock held by the next
C38_NoLockCycle ==
    LET waits(t) == /\ lock_program[t] # <<>>
                    /\ Head(lock_program[t]).step = "lock"
                    /\ ~CanLock(Head(lock_program[t]).lock, Head(lock_program[t]).mode)
        waits_for(t, u) ==
            /\ waits(t)
            /\ \E i \in 1 .. Len(lock_held[u]) :
                   /\ lock_held[u][i].lock = Head(lock_program[t]).lock
                   /\ ~(Head(lock_program[t]).mode = "read" /\ lock_held[u][i].mode = "read")
    IN  ~ \E cycle \in SUBSET LockThreads :
            /\ cycle # {}
            /\ \A t \in cycle : \E u \in cycle : waits_for(t, u)

\* a thread in find_topic creating the discovered topic waits for topic_list,
\* which a thread in discover_matched_topics holds while it waits for the
\* listener lock, held by a third call
C38_Witness ==
    \E t, u \in LockThreads :
        /\ t # u
        /\ Len(lock_held[t]) = 1
        /\ lock_held[t][1].lock = "discovered_topic_list"
        /\ lock_program[t] # <<>>
        /\ Head(lock_program[t]) = [step |-> "lock", lock |-> "topic_list", mode |-> "write"]
        /\ Len(lock_held[u]) = 1
        /\ lock_held[u][1].lock = "topic_list"

\* C35: whenever no add_discovered_participant or remove_discovered_participant
\* call is in progress, a remote participant is in discovered_participant_list
\* exactly when all six built-in SEDP endpoints hold a matched proxy for it
C35_ListedIffMatchedByAllBuiltins ==
    (\A th \in Threads : threads[th].pc = "idle") =>
        \A h \in Participants :
            h \in discovered_participant_list
                <=> \A e \in BuiltinEndpoints : h \in builtin_matched[e]

\* C36: under any interleaving of delete_publisher with create_datawriter on
\* the same publisher, delete_publisher never removes from the publisher list
\* a publisher that owns a data writer at the moment of removal
C36_DeletedPublisherHasNoDataWriter ==
    [][(delete_publisher_call.pc = "retain" /\ delete_publisher_call'.pc = "idle") =>
          \A i \in DOMAIN user_defined_publisher_list :
              InstanceHandle(user_defined_publisher_list[i].guid) = delete_publisher_call.handle[1]
                  => Len(user_defined_publisher_list[i].data_writer_list) = 0]_vars

\* C37: with deadline-miss callbacks running beside calls of
\* get_requested_deadline_missed_status no miss is lost or counted twice: when
\* neither is in progress, the total_count_change values returned so far plus
\* the current total_count_change make up total_count
C37_NoDeadlineMissLost ==
    (deadline_pc = "idle" /\ get_status_pc = "idle") =>
        returned_total_count_change + requested_deadline_missed_status.total_count_change
            = requested_deadline_missed_status.total_count

\* C39: a read or take whose sample_states mask excludes a sample leaves that
\* sample's state unchanged: a sample the call does not return is not marked
\* as read by it, so it is still NOT_READ at the next read that selects it
C39_ExcludedSampleKeepsState ==
    [][\A sn \in dr_samples_read' \ dr_samples_read :
           \E i \in DOMAIN dr_result'.samples : dr_result'.samples[i].sn = sn]_vars

\* C40: read and take never return more than max_samples samples, for every
\* max_samples >= 0 and every content of the cache
C40_AtMostMaxSamples ==
    dr_result.op \in {"read", "take"} => Len(dr_result.samples) <= dr_call.max_samples

=============================================================================
